---------------------------- MODULE Spec2Model ----------------------------
(***************************************************************************)
(* Model of the T-REX agent core: the reactor priority computation and     *)
(* sort (TeleoReactor.cc), the per-reactor wrappers the orchestrator calls *)
(* (doHandleTickStart / doSynchronize / doResume), the tick loop that      *)
(* drives them and the clocks declared in AgentClock.hh.                   *)
(*                                                                         *)
(* Reactors are numbered 1..n.  Reactor r owns one internal timeline, also *)
(* named r, so getOwner(t) = t for every timeline that has an owner.  The  *)
(* externals of a reactor are timelines of other reactors (a timeline is   *)
(* internal to its sole owner and external to its subscribers).            *)
(***************************************************************************)
EXTENDS Integers, Sequences, FiniteSets, TLC

\* ------------------------------------------------------------------ bounds
NReactors == 3      \* at most this many reactors in an agent
MaxTick   == 1      \* the agent's final tick
AgentSteps == 2     \* the agent's PseudoClock has 1 or this many steps per tick
MaxSteps  == 3      \* largest stepsPerTick of a PseudoClock polled on its own
MaxPolls  == 12     \* polls of a clock recorded in the clock specification
MaxTime   == 4      \* wall time runs over 0..MaxTime (in clock units)
MaxPeriod == 2      \* largest secondsPerTick of a RealTimeClock
FailReactors == 2   \* reactors of an agent whose synchronize can fail
FailureThreshold == 2  \* failures in a row of one reactor that stop the agent
GhostReactors == 2  \* reactors of an agent that names timelines nobody owns
MaxLookAhead == 2   \* largest lookAhead a reactor is constructed with
MaxCalls  == 2      \* doSynchronize / doResume calls on a reactor between two resets
ServerReactors == 2  \* reactors whose server connectors take goals
GoalTokens == 2     \* distinct goal tokens
MaxRequests == 3    \* goal requests and recalls submitted in one run
FactoryNames == 2   \* component names factories are registered under
MaxFactories == 3   \* factories allocated in one run
MaxMonitors == 2    \* performance monitors that exist in one run
MaxData   == 3      \* tick data added to the monitors in one run
MaxValue  == 2      \* domain values run over -MaxValue..MaxValue (numbers in halves)
MaxParameters == 3  \* push_back calls on one observation
MaxNames  == 2      \* parameter names, and parameter domains, to choose from
MaxWrites == 3      \* exportToPlanWorks calls on one assembly
MaxAttempt == 1     \* the attempts 0..MaxAttempt of an export

VARIABLES
  externals,        \* [reactor -> set of external timelines]  (queryTimelineModes)
  reactors,         \* the reactor vector handed to TeleoReactor::sort
  pc,               \* position of the orchestrator / of the pure-call harness
  idx,              \* index into reactors of the tick-start / synchronize loops
  error,            \* "none" or the checkError that fired
  call,             \* the last pure call and its result
  currentTick,      \* the tick the agent is in, -1 before the first tick
  m_syncCount,      \* [reactor -> TeleoReactor::m_syncCount]
  m_searchCount,    \* [reactor -> TeleoReactor::m_searchCount]
  hasWork,          \* [reactor -> hasWork()]
  inbox,            \* [reactor -> timelines whose observation notify() delivered and
                    \*  the reactor has not yet consumed in synchronize]
  lastTickStart,    \* [reactor -> tick of its last doHandleTickStart, -1 if none]
  lastSync,         \* [reactor -> tick of its last doSynchronize, -1 if none]
  m_syncUsage,      \* [reactor -> CPU time accrued in TeleoReactor::m_syncUsage]
  m_searchUsage,    \* [reactor -> CPU time accrued in TeleoReactor::m_searchUsage]
  failures,         \* [reactor -> failures in a row of its synchronize / resume]
  canFail,          \* whether the reactors' synchronize and resume can fail
  clockKind,        \* "pseudo" or "realtime"
  m_stepsPerTick,   \* PseudoClock::m_stepsPerTick
  m_internalTicks,  \* PseudoClock::m_internalTicks
  m_tick,           \* PseudoClock::m_tick / RealTimeClock::m_tick
  m_started,        \* RealTimeClock::m_started
  m_secondsPerTick, \* RealTimeClock::m_secondsPerTick
  m_nextTickDate,   \* RealTimeClock::m_nextTickDate
  epoch,            \* the date latched by RealTimeClock::start
  now,              \* wall time
  polls,            \* the ticks returned by getNextTick so far, oldest first
  reactorState,     \* "none", "alive" or "rejected": the reactor under construction
  m_lookAhead,      \* TeleoReactor::m_lookAhead of that reactor
  m_latency,        \* TeleoReactor::m_latency of that reactor
  built,            \* the arguments its constructor was called with
  syncCalls,        \* doSynchronize calls on it since the counters were last reset
  resumeCalls,      \* doResume calls on it since the counters were last reset
  resetDone,        \* whether doHandleInit or doHandleTickStart has been called on it
  lookupTable,      \* TeleoReactor::lookupTable(): [name -> factory id]
  aliveFactories,   \* the ids of the factories that exist
  nextFactory,      \* the number of factories allocated so far
  registered,       \* the names registered since the last purgeAll that completed
  trace,            \* what the goal submissions have done so far, oldest first
  m_tickData,       \* [monitor -> PerformanceMonitor::m_tickData]
  sl_instance,      \* the static instance of defaultMonitor(), NoId before its first use
  added,            \* [monitor -> the pairs passed to its addTickData, in call order]
  returned,         \* the monitors defaultMonitor() has returned so far
  domain,           \* the AbstractDomain handed to to_xml / print_xml
  symbolicDefault,  \* the default of domain_val_to_str's symbolic argument
  l_swapped,        \* the local swapped of TeleoReactor::sort
  l_count,          \* the local count of TeleoReactor::sort
  observation,      \* "none" or "alive": the ObservationByValue under test
  m_parameters,     \* ObservationByValue::m_parameters
  m_parameterCount, \* Observation::m_parameterCount
  pushed,           \* the arguments of its push_back calls, in call order
  assembly,         \* "none", "alive" or "destroyed": the Assembly under test
  m_ppw,            \* Assembly::m_ppw: its DbWriter, NoId when NULL
  liveWriters,      \* the DbWriters allocated and not deleted
  nextWriter,       \* the number of DbWriters allocated so far
  written           \* the (tick, attempt) pairs written, oldest first

vars == << externals, reactors, pc, idx, error, call, currentTick, m_syncCount,
           m_searchCount, hasWork, inbox, lastTickStart, lastSync, m_syncUsage,
           m_searchUsage, failures, canFail, clockKind,
           m_stepsPerTick, m_internalTicks, m_tick, m_started, m_secondsPerTick,
           m_nextTickDate, epoch, now, polls, reactorState, m_lookAhead,
           m_latency, built, syncCalls, resumeCalls, resetDone, lookupTable,
           aliveFactories, nextFactory, registered, trace, m_tickData,
           sl_instance, added, returned, domain, symbolicDefault,
           l_swapped, l_count,
           observation, m_parameters, m_parameterCount, pushed,
           assembly, m_ppw, liveWriters, nextWriter, written >>

agentVars == << idx, currentTick, m_syncCount, m_searchCount, hasWork, inbox,
                lastTickStart, lastSync, m_syncUsage, m_searchUsage, failures,
                canFail >>
clockVars == << clockKind, m_stepsPerTick, m_internalTicks, m_tick, m_started,
                m_secondsPerTick, m_nextTickDate, epoch, now, polls >>
loopVars == << idx, currentTick, hasWork, inbox, lastTickStart, lastSync, failures,
               canFail >>
reactorVars == << reactorState, m_lookAhead, m_latency, built, syncCalls,
                 resumeCalls, resetDone >>
factoryVars == << lookupTable, aliveFactories, nextFactory, registered >>
serverVars == << trace >>
monitorVars == << m_tickData, sl_instance, added, returned >>
xmlVars == << domain, symbolicDefault >>
sortVars == << l_swapped, l_count >>
observationVars == << observation, m_parameters, m_parameterCount, pushed >>
assemblyVars == << assembly, m_ppw, liveWriters, nextWriter, written >>
extVars == << reactorVars, factoryVars, serverVars, monitorVars, xmlVars, sortVars, observationVars, assemblyVars >>
notReactorVars == << factoryVars, serverVars, monitorVars, xmlVars, sortVars, observationVars, assemblyVars >>
notFactoryVars == << reactorVars, serverVars, monitorVars, xmlVars, sortVars, observationVars, assemblyVars >>
notServerVars == << reactorVars, factoryVars, monitorVars, xmlVars, sortVars, observationVars, assemblyVars >>
notMonitorVars == << reactorVars, factoryVars, serverVars, xmlVars, sortVars, observationVars, assemblyVars >>
notXmlVars == << reactorVars, factoryVars, serverVars, monitorVars, sortVars, observationVars, assemblyVars >>
notSortVars == << reactorVars, factoryVars, serverVars, monitorVars, xmlVars, observationVars, assemblyVars >>
notObservationVars == << reactorVars, factoryVars, serverVars, monitorVars, xmlVars, sortVars, assemblyVars >>
notAssemblyVars == << reactorVars, factoryVars, serverVars, monitorVars, xmlVars, sortVars, observationVars >>

\* ----------------------------------------------------------------- helpers
Max(S) == CHOOSE x \in S : \A y \in S : y <= x

Min(S) == CHOOSE x \in S : \A y \in S : x <= y

Permutations1(n) == { p \in [1..n -> 1..n] : \A i, j \in 1..n : p[i] = p[j] => i = j }

IndexOf(v, r) == CHOOSE i \in DOMAIN v : v[i] = r

\* Every configuration of n reactors: each reactor's externals are timelines of
\* other reactors.
Configurations(n) == [1..n -> SUBSET (1..n)]

NoSelfExternal(ext) == \A r \in DOMAIN ext : r \notin ext[r]

ConfigSet == UNION { { e \in Configurations(n) : NoSelfExternal(e) } : n \in 0..NReactors }

\* ------------------------------------------------------- TeleoReactor.cc
NoId == 0

CycleError == -1

InvalidIdError == -2

\* Agent::instance()->getReactorCount()
getReactorCount == Cardinality(DOMAIN externals)

\* Agent::instance()->getOwner(timeline)
getOwner(t) == IF t \in DOMAIN externals THEN t ELSE NoId

\* getPriority without the "1 +" of its return statement.
RECURSIVE getPriorityFlat(_, _)
getPriorityFlat(r, callCount) ==
  IF ~(callCount < getReactorCount) THEN CycleError
  ELSE IF externals[r] = {} THEN 0
  ELSE LET ps == { getPriorityFlat(getOwner(t), callCount + 1) : t \in externals[r] }
       IN  IF CycleError \in ps THEN CycleError ELSE Max(ps)

\* getPriority whose depth guard cuts the recursion off instead of raising.
RECURSIVE getPriorityCut(_, _)
getPriorityCut(r, callCount) ==
  IF ~(callCount < getReactorCount) THEN 0
  ELSE IF externals[r] = {} THEN 0
  ELSE 1 + Max({ getPriorityCut(getOwner(t), callCount + 1) : t \in externals[r] })

RECURSIVE getPriority(_, _)

\* The for loop of getPriority passing over the externals that have no owner.
RECURSIVE priorityLoopSkip(_, _, _)
priorityLoopSkip(ts, priority, callCount) ==
  IF ts = {} THEN priority
  ELSE LET timeline == Min(ts)
           owner    == getOwner(timeline)
       IN  IF owner = NoId THEN priorityLoopSkip(ts \ {timeline}, priority, callCount)
           ELSE LET p == getPriority(owner, callCount + 1)
                IN  IF p < 0 THEN p
                    ELSE priorityLoopSkip(ts \ {timeline},
                                          IF p > priority THEN p ELSE priority, callCount)

\* The for loop of getPriority over the externals still to visit (the list is
\* taken in ascending timeline order): the largest owner priority, or the error
\* of the first checkError that fires.
RECURSIVE priorityLoop(_, _, _)
priorityLoop(ts, priority, callCount) ==
  IF ts = {} THEN priority
  ELSE LET timeline == Min(ts)
           owner    == getOwner(timeline)
       IN  IF owner = NoId THEN InvalidIdError
           ELSE LET p == getPriority(owner, callCount + 1)
                IN  IF p < 0 THEN p
                    ELSE priorityLoop(ts \ {timeline}, IF p > priority THEN p ELSE priority,
                                      callCount)

\* getPriority whose depth guard fires one level early.
getPriorityEarly(r, callCount) ==
  IF ~(callCount + 1 < getReactorCount) THEN CycleError
  ELSE IF externals[r] = {} THEN 0
  ELSE LET p == priorityLoop(externals[r], 0, callCount)
       IN  IF p < 0 THEN p ELSE 1 + p

\* TeleoReactor::getPriority(callCount); CycleError or InvalidIdError when a
\* checkError fires.
getPriority(r, callCount) ==
  IF ~(callCount < getReactorCount) THEN CycleError
  ELSE IF externals[r] = {} THEN 0
  ELSE LET p == priorityLoop(externals[r], 0, callCount)
       IN  IF p < 0 THEN p ELSE 1 + p

\* sortPass with the comparison turned round.
RECURSIVE sortPassDescending(_, _, _)
sortPassDescending(v, i, swapped) ==
  IF ~(i < Len(v) - 1) THEN [v |-> v, swapped |-> swapped, err |-> FALSE, codes |-> {}]
  ELSE LET a  == v[i + 1]
           b  == v[i + 2]
           pa == getPriority(a, 0)
           pb == getPriority(b, 0)
       IN  IF pa < 0 \/ pb < 0
             THEN [v |-> v, swapped |-> swapped, err |-> TRUE,
                   codes |-> { c \in {pa, pb} : c < 0 }]
           ELSE IF pa < pb
             THEN sortPassDescending([v EXCEPT ![i + 1] = b, ![i + 2] = a], i + 1, TRUE)
           ELSE sortPassDescending(v, i + 1, swapped)

\* sortPass that also swaps two reactors of equal priority when the second has
\* the smaller id.
RECURSIVE sortPassById(_, _, _)
sortPassById(v, i, swapped) ==
  IF ~(i < Len(v) - 1) THEN [v |-> v, swapped |-> swapped, err |-> FALSE, codes |-> {}]
  ELSE LET a  == v[i + 1]
           b  == v[i + 2]
           pa == getPriority(a, 0)
           pb == getPriority(b, 0)
       IN  IF pa < 0 \/ pb < 0
             THEN [v |-> v, swapped |-> swapped, err |-> TRUE,
                   codes |-> { c \in {pa, pb} : c < 0 }]
           ELSE IF pb < pa \/ (pb = pa /\ b < a)
             THEN sortPassById([v EXCEPT ![i + 1] = b, ![i + 2] = a], i + 1, TRUE)
           ELSE sortPassById(v, i + 1, swapped)

\* The for loop of TeleoReactor::sort from index i (0-based) on: one pass of
\* adjacent compare-and-swap.  err when a getPriority inside it raised; codes are
\* the errors the comparison can raise (its operands are evaluated in either
\* order).
RECURSIVE sortPass(_, _, _)
sortPass(v, i, swapped) ==
  IF ~(i < Len(v) - 1) THEN [v |-> v, swapped |-> swapped, err |-> FALSE, codes |-> {}]
  ELSE LET a  == v[i + 1]
           b  == v[i + 2]
           pa == getPriority(a, 0)
           pb == getPriority(b, 0)
       IN  IF pa < 0 \/ pb < 0
             THEN [v |-> v, swapped |-> swapped, err |-> TRUE,
                   codes |-> { c \in {pa, pb} : c < 0 }]
           ELSE IF pb < pa
             THEN sortPass([v EXCEPT ![i + 1] = b, ![i + 2] = a], i + 1, TRUE)
           ELSE sortPass(v, i + 1, swapped)

\* sort without its outer loop: a single pass.
sortLoopOnce(v) == sortPass(v, 0, FALSE)

\* The while(swapped) loop of TeleoReactor::sort.
RECURSIVE sortLoop(_)
sortLoop(v) ==
  LET p == sortPass(v, 0, FALSE)
  IN  IF p.err THEN p ELSE IF p.swapped THEN sortLoop(p.v) ELSE p

\* sort whose loop never runs.
sortSkipped(v) == [v |-> v, swapped |-> FALSE, err |-> FALSE, codes |-> {}]

\* TeleoReactor::sort(reactors)
sort(v) == sortLoop(v)

\* ------------------------------------------------------------ idle values
AgentIdle ==
  /\ idx = 0
  /\ currentTick = -1
  /\ m_syncCount = [r \in DOMAIN externals |-> 0]
  /\ m_searchCount = [r \in DOMAIN externals |-> 0]
  /\ hasWork = [r \in DOMAIN externals |-> FALSE]
  /\ inbox = [r \in DOMAIN externals |-> {}]
  /\ lastTickStart = [r \in DOMAIN externals |-> -1]
  /\ lastSync = [r \in DOMAIN externals |-> -1]
  /\ m_syncUsage = [r \in DOMAIN externals |-> 0]
  /\ m_searchUsage = [r \in DOMAIN externals |-> 0]
  /\ failures = [r \in DOMAIN externals |-> 0]
  /\ canFail = FALSE

ClockIdle ==
  /\ clockKind = "pseudo"
  /\ m_stepsPerTick = 1
  /\ m_internalTicks = 0
  /\ m_tick = 0
  /\ m_started = FALSE
  /\ m_secondsPerTick = 1
  /\ m_nextTickDate = 0
  /\ epoch = 0
  /\ now = 0
  /\ polls = << >>

NoCall == [op |-> "none"]

ReactorIdle ==
  /\ reactorState = "none"
  /\ m_lookAhead = 0
  /\ m_latency = 0
  /\ built = NoCall
  /\ syncCalls = 0
  /\ resumeCalls = 0
  /\ resetDone = FALSE

FactoryIdle ==
  /\ lookupTable = << >>
  /\ aliveFactories = {}
  /\ nextFactory = 0
  /\ registered = {}

ServerIdle == trace = << >>

MonitorIdle ==
  /\ m_tickData = << >>
  /\ sl_instance = NoId
  /\ added = << >>
  /\ returned = {}

XmlIdle ==
  /\ domain = NoCall
  /\ symbolicDefault = FALSE

SortIdle ==
  /\ l_swapped = FALSE
  /\ l_count = 0

ObservationIdle ==
  /\ observation = "none"
  /\ m_parameters = << >>
  /\ m_parameterCount = 0
  /\ pushed = << >>

AssemblyIdle ==
  /\ assembly = "none"
  /\ m_ppw = NoId
  /\ liveWriters = {}
  /\ nextWriter = 0
  /\ written = << >>

ExtIdle == ReactorIdle /\ FactoryIdle /\ ServerIdle /\ MonitorIdle /\ XmlIdle /\ SortIdle /\ ObservationIdle /\ AssemblyIdle

\* The message of the checkError behind an error code of getPriority.
errorName(code) == IF code = CycleError THEN "cycle" ELSE "invalid"

\* ------------------------------------------- specification of sort alone
SortInit ==
  /\ ExtIdle
  /\ externals \in ConfigSet
  /\ reactors \in Permutations1(Cardinality(DOMAIN externals))
  /\ pc = "unsorted"
  /\ error = "none"
  /\ call = NoCall
  /\ AgentIdle
  /\ ClockIdle

\* A call of TeleoReactor::sort on the vector.
SortCall ==
  /\ pc = "unsorted"
  /\ LET s == sort(reactors)
     IN  /\ reactors' = s.v
         /\ pc' = IF s.err THEN "failed" ELSE "sorted"
         /\ error' \in IF s.err THEN { errorName(c) : c \in s.codes } ELSE {"none"}
         /\ call' = [op |-> "sort", arg |-> reactors]
  /\ UNCHANGED << externals, agentVars, clockVars >>
  /\ UNCHANGED extVars

SortNext == SortCall

SpecSort == SortInit /\ [][SortNext]_vars

\* ---------------------- specification of sort, one statement at a time
\* The test of line 176 that also holds for equal priorities.
outOfOrderOrTied(pa, pb) == pb <= pa

\* b->getPriority() < a->getPriority()
outOfOrder(pa, pb) == pb < pa

sortFrame == << externals, currentTick, m_syncCount, m_searchCount, hasWork, inbox,
                lastTickStart, lastSync, m_syncUsage, m_searchUsage, failures,
                canFail, clockVars, notSortVars >>

\* bool swapped = true; int count = reactors.size()-1;
SortEnter ==
  /\ pc = "unsorted"
  /\ l_swapped' = TRUE
  /\ l_count' = Len(reactors) - 1
  /\ call' = [op |-> "sort", arg |-> reactors]
  /\ pc' = "while"
  /\ UNCHANGED << reactors, idx, error, sortFrame >>

\* while(swapped){ swapped = false; for(int i=0; ...
SortWhile ==
  /\ pc = "while"
  /\ IF l_swapped
       THEN /\ l_swapped' = FALSE
            /\ idx' = 0
            /\ pc' = "for"
       ELSE /\ pc' = "sorted"
            /\ UNCHANGED << l_swapped, idx >>
  /\ UNCHANGED << reactors, error, call, l_count, sortFrame >>

\* One test of i<count and, when it holds, one run of the body and i++.
SortFor ==
  /\ pc = "for"
  /\ IF idx < l_count
       THEN LET a  == reactors[idx + 1]
                b  == reactors[idx + 2]
                pa == getPriority(a, 0)
                pb == getPriority(b, 0)
            IN  IF pa < 0 \/ pb < 0
                  THEN /\ pc' = "failed"
                       /\ error' \in { errorName(c) : c \in { c \in {pa, pb} : c < 0 } }
                       /\ UNCHANGED << reactors, idx, l_swapped >>
                  ELSE /\ IF outOfOrder(pa, pb)
                            THEN /\ reactors' = [reactors EXCEPT ![idx + 1] = b, ![idx + 2] = a]
                                 /\ l_swapped' = TRUE
                            ELSE UNCHANGED << reactors, l_swapped >>
                       /\ idx' = idx + 1
                       /\ UNCHANGED << pc, error >>
       ELSE /\ pc' = "while"
            /\ UNCHANGED << reactors, idx, l_swapped, error >>
  /\ UNCHANGED << call, l_count, sortFrame >>

StepNext == SortEnter \/ SortWhile \/ SortFor

SpecSortSteps == SortInit /\ [][StepNext]_vars

\* The timeline names of an agent of n reactors that no reactor owns: one that
\* sorts before and one that sorts after the owned ones.
Unowned(n) == {0, n + 1}

\* The agents of at most GhostReactors reactors whose externals may name
\* timelines that no reactor owns.
GhostConfigSet ==
  UNION { { e \in [1..n -> SUBSET (1..n \cup Unowned(n))] : NoSelfExternal(e) } :
          n \in 0..GhostReactors }

\* The vector of such an agent before it is sorted.
GhostInit ==
  /\ ExtIdle
  /\ externals \in GhostConfigSet
  /\ reactors \in Permutations1(Cardinality(DOMAIN externals))
  /\ pc = "unsorted"
  /\ error = "none"
  /\ call = NoCall
  /\ AgentIdle
  /\ ClockIdle

\* sort of reactors whose externals may have no owner.
SpecGhost == GhostInit /\ [][SortNext]_vars

\* -------------------------------------- specification of getPriority alone
PriorityInit ==
  /\ ExtIdle
  /\ externals \in ConfigSet
  /\ reactors = [i \in 1..Cardinality(DOMAIN externals) |-> i]
  /\ pc = "priority"
  /\ error = "none"
  /\ call = NoCall
  /\ AgentIdle
  /\ ClockIdle

\* A call r->getPriority() (callCount defaults to 0).
PriorityCall(r) ==
  /\ pc = "priority"
  /\ LET p == getPriority(r, 0)
     IN  /\ call' = [op |-> "getPriority", arg |-> r, result |-> p]
         /\ error' = IF p < 0 THEN errorName(p) ELSE "none"
  /\ UNCHANGED << externals, reactors, pc, agentVars, clockVars >>
  /\ UNCHANGED extVars

PriorityNext == \E r \in DOMAIN externals : PriorityCall(r)

SpecPriority == PriorityInit /\ [][PriorityNext]_vars

\* ----------------------------------------------------------- the clocks
\* getNextTick that counts the step before it tests for the end of the tick.
PseudoClock_getNextTickEarly ==
  [internal |-> m_internalTicks + 1,
   tick     |-> IF (m_internalTicks + 1) % m_stepsPerTick = 0
                  THEN m_tick + 1 ELSE m_tick]

\* PseudoClock::getNextTick: every call counts one internal step, and the visible
\* tick advances once stepsPerTick steps have been spent in it.
PseudoClock_getNextTick ==
  [internal |-> m_internalTicks + 1,
   tick     |-> IF m_internalTicks > 0 /\ m_internalTicks % m_stepsPerTick = 0
                  THEN m_tick + 1 ELSE m_tick]

\* getNextTick taking the remainder for the quotient.
RealTimeClock_getNextTickRem ==
  IF m_started THEN (now - epoch) % m_secondsPerTick ELSE m_tick

\* RealTimeClock::getNextTick: the number of whole periods since the epoch; the
\* clock idles at its initial tick until start() is called.
RealTimeClock_getNextTick ==
  IF m_started THEN (now - epoch) \div m_secondsPerTick ELSE m_tick

\* RealTimeClock::setNextTickDate: the date of the boundary that ends tick t.
setNextTickDate(t) == epoch + (t + 1) * m_secondsPerTick

\* The time left to the next tick date, negative once the date has passed.
RealTimeClock_timeLeft == m_nextTickDate - now

\* RealTimeClock::getSleepDelay: the time left to the next tick date, 0 once the
\* date has passed.
RealTimeClock_getSleepDelay ==
  IF RealTimeClock_timeLeft > 0 THEN RealTimeClock_timeLeft ELSE 0

\* ------------------------------------------------- the reactor's wrappers
\* TeleoReactor::doHandleInit on each reactor of rs: both counters and both
\* usages are reset.
doHandleInit(rs) ==
  /\ m_syncCount' = [r \in DOMAIN m_syncCount |-> IF r \in rs THEN 0 ELSE m_syncCount[r]]
  /\ m_syncUsage' = [r \in DOMAIN m_syncUsage |-> IF r \in rs THEN 0 ELSE m_syncUsage[r]]
  /\ m_searchCount' = [r \in DOMAIN m_searchCount |-> IF r \in rs THEN 0 ELSE m_searchCount[r]]
  /\ m_searchUsage' = [r \in DOMAIN m_searchUsage |-> IF r \in rs THEN 0 ELSE m_searchUsage[r]]

\* doHandleTickStart that leaves the usages as they are.
doHandleTickStartCountsOnly(r) ==
  /\ m_syncCount' = [m_syncCount EXCEPT ![r] = 0]
  /\ m_searchCount' = [m_searchCount EXCEPT ![r] = 0]
  /\ UNCHANGED << m_syncUsage, m_searchUsage >>

\* TeleoReactor::doHandleTickStart: both counters and both usages are reset.
doHandleTickStart(r) ==
  /\ m_syncCount' = [m_syncCount EXCEPT ![r] = 0]
  /\ m_syncUsage' = [m_syncUsage EXCEPT ![r] = 0]
  /\ m_searchCount' = [m_searchCount EXCEPT ![r] = 0]
  /\ m_searchUsage' = [m_searchUsage EXCEPT ![r] = 0]

\* TeleoReactor::doSynchronize: ++m_syncCount, then synchronize() under a
\* chronometer that adds the CPU time lap of the call to m_syncUsage; own is
\* what the reactor's synchronize() returned and result what doSynchronize
\* returns to its caller.
doSynchronize(r, lap, ok) ==
  /\ m_syncCount' = [m_syncCount EXCEPT ![r] = @ + 1]
  /\ m_syncUsage' = [m_syncUsage EXCEPT ![r] = @ + lap]
  /\ UNCHANGED << m_searchCount, m_searchUsage >>
  /\ call' = [op |-> "synchronize", arg |-> r, own |-> ok, result |-> ok]

\* TeleoReactor::doResume: ++m_searchCount, then resume() under a chronometer
\* that adds the CPU time lap of the call to m_searchUsage.
doResume(r, lap) ==
  /\ m_searchCount' = [m_searchCount EXCEPT ![r] = @ + 1]
  /\ m_searchUsage' = [m_searchUsage EXCEPT ![r] = @ + lap]
  /\ UNCHANGED << m_syncCount, m_syncUsage >>

\* The reactors whose TeleoObserver is attached to timeline t.
Subscribers(t) == { s \in DOMAIN externals : t \in externals[s] }

\* TeleoObserver::notify on each observer of timeline t: the observation reaches
\* the observer's reactor in the same call.
notify(box, t) ==
  [s \in DOMAIN box |-> IF s \in Subscribers(t) THEN box[s] \cup {t} ELSE box[s]]

\* ---------------------------------------------------------- the tick loop
Count == Len(reactors)

\* The last reactor of the vector that has work.
nextReactorLast ==
  IF \E i \in 1..Count : hasWork[reactors[i]]
    THEN reactors[CHOOSE i \in 1..Count :
                    /\ hasWork[reactors[i]]
                    /\ \A j \in (i + 1)..Count : ~hasWork[reactors[j]]]
    ELSE NoId

\* The first reactor of the sorted vector that has work, NoId when none has.
nextReactor ==
  IF \E i \in 1..Count : hasWork[reactors[i]]
    THEN reactors[CHOOSE i \in 1..Count :
                    /\ hasWork[reactors[i]]
                    /\ \A j \in 1..(i - 1) : ~hasWork[reactors[j]]]
    ELSE NoId

\* A poll begins a new tick only before the first tick.
beginsTickOnce(t) == t # currentTick /\ currentTick < 0

\* Whether a polled tick begins a new tick: it has advanced since the last
\* iteration.
beginsTick(t) == t # currentTick

\* The tick-start pass followed directly by deliberation.
phaseAfterTickStartDelib == "delib"

\* The phase that follows the tick-start pass.
phaseAfterTickStart == "sync"

\* What synchronize() can return.
SyncResults == IF canFail THEN BOOLEAN ELSE {TRUE}

\* The recovery policy through a failure that escalates at once.
afterAttemptFatal(count, ok) == IF ok THEN 0 ELSE FailureThreshold

\* The recovery policy: the failures in a row of a reactor after one more
\* synchronize that returned ok.
afterAttempt(count, ok) == IF ok THEN 0 ELSE count + 1

\* After construction: the reactors are allocated in configuration order, their
\* counters are not yet initialised, and the clock has not been polled.
AgentStart(configs, fallible) ==
  /\ ExtIdle
  /\ externals \in configs
  /\ reactors = [i \in 1..Cardinality(DOMAIN externals) |-> i]
  /\ pc = "init"
  /\ idx = 0
  /\ error = "none"
  /\ call = NoCall
  /\ currentTick = -1
  /\ \E g \in {0, 1} :
       /\ m_syncCount = [r \in DOMAIN externals |-> g]
       /\ m_searchCount = [r \in DOMAIN externals |-> g]
  /\ hasWork = [r \in DOMAIN externals |-> FALSE]
  /\ inbox = [r \in DOMAIN externals |-> {}]
  /\ lastTickStart = [r \in DOMAIN externals |-> -1]
  /\ lastSync = [r \in DOMAIN externals |-> -1]
  /\ m_syncUsage = [r \in DOMAIN externals |-> 0]
  /\ m_searchUsage = [r \in DOMAIN externals |-> 0]
  /\ failures = [r \in DOMAIN externals |-> 0]
  /\ canFail = fallible
  /\ clockKind = "pseudo"
  /\ m_stepsPerTick \in {1, AgentSteps}
  /\ m_internalTicks = 0
  /\ m_tick = 0
  /\ m_started = FALSE
  /\ m_secondsPerTick = 1
  /\ m_nextTickDate = 0
  /\ epoch = 0
  /\ now = 0
  /\ polls = << >>

\* An agent whose reactors' synchronize always succeeds.
Init == AgentStart(ConfigSet, FALSE)

\* The agents of at most FailReactors reactors.
FailConfigSet == { e \in ConfigSet : Cardinality(DOMAIN e) <= FailReactors }

\* An agent whose reactors' synchronize can fail.
FailInit == AgentStart(FailConfigSet, TRUE)

\* Agent initialisation: the reactors are sorted; a configuration error ends the
\* process, otherwise every reactor gets doHandleInit.
AgentInit ==
  /\ pc = "init"
  /\ LET s == sort(reactors)
     IN  /\ reactors' = s.v
         /\ IF s.err
              THEN /\ pc' = "failed"
                   /\ error' \in { errorName(c) : c \in s.codes }
                   /\ UNCHANGED << m_syncCount, m_searchCount, m_syncUsage,
                                   m_searchUsage >>
              ELSE /\ pc' = "poll"
                   /\ error' = "none"
                   /\ doHandleInit(DOMAIN externals)
  /\ call' = [op |-> "init"]
  /\ UNCHANGED << externals, idx, currentTick, hasWork, inbox, lastTickStart,
                  lastSync, failures, canFail, clockVars >>
  /\ UNCHANGED extVars

\* Step 1 of the loop: poll the clock; a new tick starts the tick-start pass, a
\* tick past the final tick ends the run, otherwise deliberation goes on.
Poll ==
  /\ pc = "poll"
  /\ LET c == PseudoClock_getNextTick
     IN  /\ m_internalTicks' = c.internal
         /\ m_tick' = c.tick
         /\ IF c.tick > MaxTick
              THEN pc' = "done" /\ UNCHANGED << currentTick, idx >>
            ELSE IF beginsTick(c.tick)
              THEN /\ currentTick' = c.tick
                   /\ idx' = 0
                   /\ pc' = IF Count = 0 THEN "delib" ELSE "tickstart"
            ELSE pc' = "delib" /\ UNCHANGED << currentTick, idx >>
  /\ call' = [op |-> "poll"]
  /\ UNCHANGED << externals, reactors, error, m_syncCount, m_searchCount, hasWork,
                  inbox, lastTickStart, lastSync, m_syncUsage, m_searchUsage,
                  failures, canFail, clockKind, m_stepsPerTick,
                  m_started, m_secondsPerTick, m_nextTickDate, epoch, now, polls >>
  /\ UNCHANGED extVars

\* handle_tick_start on the next reactor of the vector.
TickStart ==
  /\ pc = "tickstart"
  /\ LET r == reactors[idx + 1]
     IN  /\ doHandleTickStart(r)
         /\ lastTickStart' = [lastTickStart EXCEPT ![r] = currentTick]
         /\ call' = [op |-> "tickstart", arg |-> r]
  /\ IF idx + 1 = Count
       THEN pc' = phaseAfterTickStart /\ idx' = 0
       ELSE pc' = pc /\ idx' = idx + 1
  /\ UNCHANGED << externals, reactors, error, currentTick, hasWork, inbox,
                  lastSync, failures, canFail, clockVars >>
  /\ UNCHANGED extVars

\* synchronize on the next reactor of the vector: it consumes the observations
\* it was notified of, publishes at most one observation on its internal
\* timeline and ends with or without pending work.  A failure is logged and the
\* pass goes on with the next reactor; failures in a row of one reactor beyond
\* the threshold are fatal.  (CPU time is not measured in the tick loop.)
Synchronize ==
  /\ pc = "sync"
  /\ LET r == reactors[idx + 1]
     IN  /\ \E ok \in SyncResults : doSynchronize(r, 0, ok)
         /\ lastSync' = [lastSync EXCEPT ![r] = currentTick]
         /\ \E publish \in BOOLEAN :
              inbox' = IF publish THEN notify([inbox EXCEPT ![r] = {}], r)
                                  ELSE [inbox EXCEPT ![r] = {}]
         /\ \E w \in BOOLEAN : hasWork' = [hasWork EXCEPT ![r] = w]
         /\ failures' = [failures EXCEPT ![r] = afterAttempt(@, call'.result)]
         /\ IF failures'[r] >= FailureThreshold
              THEN pc' = "fatal" /\ idx' = idx
            ELSE IF idx + 1 = Count
              THEN pc' = "delib" /\ idx' = 0
            ELSE pc' = pc /\ idx' = idx + 1
  /\ UNCHANGED << externals, reactors, error, currentTick, lastTickStart, canFail,
                  clockVars >>
  /\ UNCHANGED extVars

\* Step 2 of the loop: one resume slice for the first reactor with work.
Resume ==
  /\ pc = "delib"
  /\ nextReactor # NoId
  /\ LET r == nextReactor
     IN  /\ doResume(r, 0)
         /\ \E w \in BOOLEAN : hasWork' = [hasWork EXCEPT ![r] = w]
         /\ call' = [op |-> "resume", arg |-> r]
  /\ pc' = "poll"
  /\ UNCHANGED << externals, reactors, idx, error, currentTick, inbox,
                  lastTickStart, lastSync, failures, canFail, clockVars >>
  /\ UNCHANGED extVars

\* Step 2 of the loop when no reactor has work: sleep for the clock's delay.
Sleep ==
  /\ pc = "delib"
  /\ nextReactor = NoId
  /\ call' = [op |-> "sleep"]
  /\ pc' = "poll"
  /\ UNCHANGED << externals, reactors, idx, error, currentTick, m_syncCount,
                  m_searchCount, hasWork, inbox, lastTickStart, lastSync,
                  m_syncUsage, m_searchUsage, failures, canFail, clockVars >>
  /\ UNCHANGED extVars

Next == AgentInit \/ Poll \/ TickStart \/ Synchronize \/ Resume \/ Sleep

Spec == Init /\ [][Next]_vars

SpecFail == FailInit /\ [][Next]_vars

\* ------------------------------------------- specification of the clocks
ClockInit ==
  /\ ExtIdle
  /\ externals = << >>
  /\ reactors = << >>
  /\ pc = "clock"
  /\ error = "none"
  /\ call = NoCall
  /\ AgentIdle
  /\ clockKind \in {"pseudo", "realtime"}
  /\ m_stepsPerTick \in 1..MaxSteps
  /\ m_secondsPerTick \in 1..MaxPeriod
  /\ clockKind = "pseudo" => m_secondsPerTick = 1
  /\ clockKind = "realtime" => m_stepsPerTick = 1
  /\ m_internalTicks = 0
  /\ m_tick = 0
  /\ m_started = FALSE
  /\ m_nextTickDate = 0
  /\ epoch = 0
  /\ now = 0
  /\ polls = << >>

\* Wall time passes.
TimePasses ==
  /\ now < MaxTime
  /\ now' = now + 1
  /\ UNCHANGED << externals, reactors, pc, error, call, agentVars, clockKind,
                  m_stepsPerTick, m_internalTicks, m_tick, m_started,
                  m_secondsPerTick, m_nextTickDate, epoch, polls >>
  /\ UNCHANGED extVars

\* A poll of a PseudoClock.
PseudoPoll ==
  /\ pc = "clock"
  /\ clockKind = "pseudo"
  /\ Len(polls) < MaxPolls
  /\ LET c == PseudoClock_getNextTick
     IN  /\ m_internalTicks' = c.internal
         /\ m_tick' = c.tick
         /\ polls' = Append(polls, c.tick)
  /\ UNCHANGED << externals, reactors, pc, error, call, agentVars, clockKind,
                  m_stepsPerTick, m_started, m_secondsPerTick, m_nextTickDate,
                  epoch, now >>
  /\ UNCHANGED extVars

\* Clock::doStart on a RealTimeClock: start() latches the epoch.
RealStart ==
  /\ pc = "clock"
  /\ clockKind = "realtime"
  /\ ~m_started
  /\ m_started' = TRUE
  /\ epoch' = now
  /\ m_nextTickDate' = now + m_secondsPerTick
  /\ UNCHANGED << externals, reactors, pc, error, call, agentVars, clockKind,
                  m_stepsPerTick, m_internalTicks, m_tick, m_secondsPerTick,
                  now, polls >>
  /\ UNCHANGED extVars

\* A poll of a RealTimeClock.
RealPoll ==
  /\ pc = "clock"
  /\ clockKind = "realtime"
  /\ Len(polls) < MaxPolls
  /\ LET t == RealTimeClock_getNextTick
     IN  /\ m_tick' = t
         /\ m_nextTickDate' = IF m_started THEN setNextTickDate(t) ELSE m_nextTickDate
         /\ polls' = Append(polls, t)
         /\ call' = [op |-> "getNextTick", at |-> now, started |-> m_started,
                     result |-> t]
  /\ UNCHANGED << externals, reactors, pc, error, agentVars, clockKind,
                  m_stepsPerTick, m_internalTicks, m_started, m_secondsPerTick,
                  epoch, now >>
  /\ UNCHANGED extVars

\* The agent asks a started RealTimeClock how long to sleep.
RealSleepDelay ==
  /\ pc = "clock"
  /\ clockKind = "realtime"
  /\ m_started
  /\ call' = [op |-> "getSleepDelay", at |-> now, started |-> m_started,
              result |-> RealTimeClock_getSleepDelay]
  /\ UNCHANGED << externals, reactors, pc, error, agentVars, clockVars >>
  /\ UNCHANGED extVars

ClockNext == TimePasses \/ PseudoPoll \/ RealStart \/ RealPoll \/ RealSleepDelay

SpecClock == ClockInit /\ [][ClockNext]_vars

\* -------------------------------------- specification of a single reactor
\* TeleoReactor::getLookAheadFromXML: the lookAhead attribute (<< >> when the
\* element has none), defaulting to the agent's final tick.
getLookAheadFromXML(attribute) == IF attribute = << >> THEN MaxTick ELSE attribute[1]

\* A constructor without its closing check.
constructedUnchecked(lookAhead, latency) == TRUE

\* The checkError that ends both constructors: whether the reactor comes to
\* exist.
constructed(lookAhead, latency) == latency <= lookAhead

\* TeleoReactor::getLatency
getLatency == m_latency

\* TeleoReactor::getLookAhead
getLookAhead == m_lookAhead

ReactorInit ==
  /\ externals = << {} >>
  /\ reactors = << 1 >>
  /\ pc = "reactor"
  /\ error = "none"
  /\ call = NoCall
  /\ AgentIdle
  /\ ClockIdle
  /\ ExtIdle

\* The member initialisers and body shared by both constructors: the counters are
\* left unset, the usages are zeroed, and the closing check decides whether the
\* reactor exists.
Allocate(args, lookAhead, latency) ==
  /\ pc = "reactor"
  /\ reactorState = "none"
  /\ built' = args
  /\ m_lookAhead' = lookAhead
  /\ m_latency' = latency
  /\ IF constructed(lookAhead, latency)
       THEN reactorState' = "alive" /\ error' = "none"
       ELSE reactorState' = "rejected" /\ error' = "latency"
  /\ \E g \in {0, 1} :
       /\ m_syncCount' = [r \in DOMAIN externals |-> g]
       /\ m_searchCount' = [r \in DOMAIN externals |-> g]
  /\ m_syncUsage' = [r \in DOMAIN externals |-> 0]
  /\ m_searchUsage' = [r \in DOMAIN externals |-> 0]
  /\ call' = [op |-> "construct"]
  /\ UNCHANGED << externals, reactors, pc, loopVars, clockVars, syncCalls,
                  resumeCalls, resetDone, notReactorVars >>

\* TeleoReactor(agentName, configData, logDefault)
ConstructFromXML ==
  \E attribute \in {<< >>} \cup { <<n>> : n \in 0..MaxLookAhead } :
    \E latency \in 0..(MaxLookAhead + 1) :
      Allocate([ctor |-> "xml", lookAhead |-> attribute, latency |-> latency],
               getLookAheadFromXML(attribute), latency)

\* TeleoReactor(agentName, name, lookAhead, latency, log)
ConstructDirect ==
  \E lookAhead \in 0..MaxLookAhead :
    \E latency \in 0..(MaxLookAhead + 1) :
      Allocate([ctor |-> "direct", lookAhead |-> <<lookAhead>>, latency |-> latency],
               lookAhead, latency)

\* A call of getLatency() on the reactor.
GetLatency ==
  /\ reactorState = "alive"
  /\ call' = [op |-> "getLatency", result |-> getLatency]
  /\ UNCHANGED << externals, reactors, pc, error, agentVars, clockVars, reactorVars,
                  notReactorVars >>

\* A call of getLookAhead() on the reactor.
GetLookAhead ==
  /\ reactorState = "alive"
  /\ call' = [op |-> "getLookAhead", result |-> getLookAhead]
  /\ UNCHANGED << externals, reactors, pc, error, agentVars, clockVars, reactorVars,
                  notReactorVars >>

\* A call of doHandleInit on the reactor.
HandleInitCall ==
  /\ reactorState = "alive"
  /\ doHandleInit({1})
  /\ syncCalls' = 0
  /\ resumeCalls' = 0
  /\ resetDone' = TRUE
  /\ call' = [op |-> "doHandleInit"]
  /\ UNCHANGED << externals, reactors, pc, error, loopVars, clockVars, reactorState,
                  m_lookAhead, m_latency, built, notReactorVars >>

\* A call of doHandleTickStart on the reactor.
HandleTickStartCall ==
  /\ reactorState = "alive"
  /\ doHandleTickStart(1)
  /\ syncCalls' = 0
  /\ resumeCalls' = 0
  /\ resetDone' = TRUE
  /\ call' = [op |-> "doHandleTickStart"]
  /\ UNCHANGED << externals, reactors, pc, error, loopVars, clockVars, reactorState,
                  m_lookAhead, m_latency, built, notReactorVars >>

\* A call of doSynchronize on the reactor; the call takes 0 or 1 unit of CPU time.
SynchronizeCall ==
  /\ reactorState = "alive"
  /\ syncCalls < MaxCalls
  /\ \E lap \in {0, 1} : \E ok \in BOOLEAN : doSynchronize(1, lap, ok)
  /\ syncCalls' = syncCalls + 1
  /\ UNCHANGED << externals, reactors, pc, error, loopVars, clockVars, reactorState,
                  m_lookAhead, m_latency, built, resumeCalls, resetDone, notReactorVars >>

\* A call of doResume on the reactor; the call takes 0 or 1 unit of CPU time.
ResumeCall ==
  /\ reactorState = "alive"
  /\ resumeCalls < MaxCalls
  /\ \E lap \in {0, 1} : doResume(1, lap)
  /\ resumeCalls' = resumeCalls + 1
  /\ call' = [op |-> "resume", arg |-> 1]
  /\ UNCHANGED << externals, reactors, pc, error, loopVars, clockVars, reactorState,
                  m_lookAhead, m_latency, built, syncCalls, resetDone, notReactorVars >>

ReactorNext ==
  \/ ConstructFromXML
  \/ ConstructDirect
  \/ GetLatency
  \/ GetLookAhead
  \/ HandleInitCall
  \/ HandleTickStartCall
  \/ SynchronizeCall
  \/ ResumeCall

SpecReactor == ReactorInit /\ [][ReactorNext]_vars

\* ------------------------------- specification of the factory registry
Names == 1..FactoryNames

\* TeleoReactor::getFactory(name)
getFactory(name) == IF name \in DOMAIN lookupTable THEN lookupTable[name] ELSE NoId

\* std::map::insert: a key already in the map keeps its entry.
insert(table, name, factory) ==
  IF name \in DOMAIN table THEN table
  ELSE [n \in DOMAIN table \cup {name} |-> IF n = name THEN factory ELSE table[n]]

\* registerFactory without its check.
registerFactoryUnchecked(name, factory) ==
  [table |-> insert(lookupTable, name, factory), err |-> "none"]

\* TeleoReactor::registerFactory(name, factory): the table after the call and the
\* checkError that fired.
registerFactory(name, factory) ==
  IF getFactory(name) # NoId
    THEN [table |-> lookupTable, err |-> "already registered"]
    ELSE [table |-> insert(lookupTable, name, factory), err |-> "none"]

\* The while loop of TeleoReactor::purgeAll: the first entry is erased, checked
\* and deleted until the table is empty or the check fires.
RECURSIVE purgeLoop(_, _)
purgeLoop(table, alive) ==
  IF DOMAIN table = {} THEN [table |-> table, alive |-> alive, err |-> "none"]
  ELSE LET first == Min(DOMAIN table)
           f     == table[first]
           rest  == [n \in DOMAIN table \ {first} |-> table[n]]
       IN  IF f \notin alive
             THEN [table |-> rest, alive |-> alive, err |-> "invalid factory"]
             ELSE purgeLoop(rest, alive \ {f})

\* TeleoReactor::purgeAll()
purgeAll == purgeLoop(lookupTable, aliveFactories)

\* TeleoReactor::createInstance(agentName, component, configData): the outcomes
\* of the call.  A factory that was deleted while still in the table is a
\* dangling pointer: the call through it may fail or construct.
createInstance(name) ==
  LET factory == getFactory(name)
  IN  IF factory = NoId THEN { [err |-> "not registered", made |-> FALSE] }
      ELSE IF factory \in aliveFactories THEN { [err |-> "none", made |-> TRUE] }
      ELSE { [err |-> "crash", made |-> FALSE], [err |-> "none", made |-> TRUE] }

FactoryInit ==
  /\ externals = << >>
  /\ reactors = << >>
  /\ pc = "factory"
  /\ error = "none"
  /\ call = NoCall
  /\ AgentIdle
  /\ ClockIdle
  /\ ExtIdle

\* new Factory(name): the constructor registers the factory under its name; when
\* the registration raises, no factory comes to exist.
NewFactory(name) ==
  /\ pc = "factory"
  /\ nextFactory < MaxFactories
  /\ LET id == nextFactory + 1
         r  == registerFactory(name, id)
     IN  /\ nextFactory' = id
         /\ lookupTable' = r.table
         /\ error' = r.err
         /\ aliveFactories' = IF r.err = "none" THEN aliveFactories \cup {id}
                                               ELSE aliveFactories
         /\ registered' = IF r.err = "none" THEN registered \cup {name} ELSE registered
         /\ call' = [op |-> "Factory", name |-> name, result |-> id]
  /\ UNCHANGED << externals, reactors, pc, agentVars, clockVars, notFactoryVars >>

\* delete of a factory by its owner: the destructor removes the id and leaves
\* the table alone.
DeleteFactory(f) ==
  /\ pc = "factory"
  /\ f \in aliveFactories
  /\ aliveFactories' = aliveFactories \ {f}
  /\ error' = "none"
  /\ call' = [op |-> "~Factory", name |-> NoId, result |-> f]
  /\ UNCHANGED << externals, reactors, pc, agentVars, clockVars, notFactoryVars,
                  lookupTable, nextFactory, registered >>

\* A call of purgeAll().
PurgeAllCall ==
  /\ pc = "factory"
  /\ LET r == purgeAll
     IN  /\ lookupTable' = r.table
         /\ aliveFactories' = r.alive
         /\ error' = r.err
         /\ registered' = IF r.err = "none" THEN {} ELSE registered
  /\ call' = [op |-> "purgeAll", name |-> NoId, result |-> NoId]
  /\ UNCHANGED << externals, reactors, pc, agentVars, clockVars, notFactoryVars,
                  nextFactory >>

\* A call of getFactory(name).
GetFactoryCall(name) ==
  /\ pc = "factory"
  /\ error' = "none"
  /\ call' = [op |-> "getFactory", name |-> name, result |-> getFactory(name)]
  /\ UNCHANGED << externals, reactors, pc, agentVars, clockVars, notFactoryVars,
                  factoryVars >>

\* A call of createInstance(agentName, name, configData).
CreateInstanceCall(name) ==
  /\ pc = "factory"
  /\ \E r \in createInstance(name) :
       /\ error' = r.err
       /\ call' = [op |-> "createInstance", name |-> name, result |-> r.made]
  /\ UNCHANGED << externals, reactors, pc, agentVars, clockVars, notFactoryVars,
                  factoryVars >>

FactoryNext ==
  \/ \E name \in Names : NewFactory(name)
  \/ \E f \in aliveFactories : DeleteFactory(f)
  \/ PurgeAllCall
  \/ \E name \in Names : GetFactoryCall(name)
  \/ \E name \in Names : CreateInstanceCall(name)

SpecFactory == FactoryInit /\ [][FactoryNext]_vars

\* ------------------------------- specification of the server connectors
\* TeleoReactor::request with the handler called before the agent's log.
requestHandledFirst(r, goal) ==
  << [ev |-> "handleRequest", reactor |-> r, goal |-> goal],
     [ev |-> "logRequest", reactor |-> NoId, goal |-> goal] >>

\* TeleoReactor::request(goal) on reactor r: Agent::logRequest, then the
\* reactor's own handleRequest.
request(r, goal) ==
  << [ev |-> "logRequest", reactor |-> NoId, goal |-> goal],
     [ev |-> "handleRequest", reactor |-> r, goal |-> goal] >>

\* TeleoReactor::recall(goal) on reactor r: Agent::logRecall, then the reactor's
\* own handleRecall.
recall(r, goal) ==
  << [ev |-> "logRecall", reactor |-> NoId, goal |-> goal],
     [ev |-> "handleRecall", reactor |-> r, goal |-> goal] >>

\* The TeleoServer a reactor allocates in its constructor holds that reactor's
\* id; the server of reactor r is named r.
TeleoServer_reactor(server) == server

\* TeleoServer::request(goal)
TeleoServer_request(server, goal) == request(TeleoServer_reactor(server), goal)

\* TeleoServer::recall(goal)
TeleoServer_recall(server, goal) == recall(TeleoServer_reactor(server), goal)

ServerInit ==
  /\ externals = [r \in 1..ServerReactors |-> {}]
  /\ reactors = [i \in 1..ServerReactors |-> i]
  /\ pc = "server"
  /\ error = "none"
  /\ call = NoCall
  /\ AgentIdle
  /\ ClockIdle
  /\ ExtIdle

\* A client submits a goal to a server connector and gets control back.
SubmitRequest(server, goal) ==
  /\ pc = "server"
  /\ Len(trace) < 4 * MaxRequests
  /\ trace' = trace \o << [ev |-> "request", reactor |-> server, goal |-> goal] >>
                    \o TeleoServer_request(server, goal)
                    \o << [ev |-> "return", reactor |-> server, goal |-> goal] >>
  /\ call' = [op |-> "request", arg |-> server]
  /\ UNCHANGED << externals, reactors, pc, error, agentVars, clockVars, notServerVars >>

\* A client recalls a goal through a server connector and gets control back.
SubmitRecall(server, goal) ==
  /\ pc = "server"
  /\ Len(trace) < 4 * MaxRequests
  /\ trace' = trace \o << [ev |-> "recall", reactor |-> server, goal |-> goal] >>
                    \o TeleoServer_recall(server, goal)
                    \o << [ev |-> "return", reactor |-> server, goal |-> goal] >>
  /\ call' = [op |-> "recall", arg |-> server]
  /\ UNCHANGED << externals, reactors, pc, error, agentVars, clockVars, notServerVars >>

ServerNext ==
  \/ \E server \in DOMAIN externals : \E goal \in 1..GoalTokens : SubmitRequest(server, goal)
  \/ \E server \in DOMAIN externals : \E goal \in 1..GoalTokens : SubmitRecall(server, goal)

SpecServer == ServerInit /\ [][ServerNext]_vars

\* ---------------------------- specification of the performance monitors
\* A sync time and a deliberation time.
TickPairs == (0..1) \X (0..1)

\* addTickData that puts the pair in front.
addTickDataFront(data, synchTime, deliberationTime) ==
  << <<synchTime, deliberationTime>> >> \o data

\* PerformanceMonitor::addTickData and StatisticsCollector::addTickData:
\* m_tickData.push_back of the pair.
addTickData(data, synchTime, deliberationTime) ==
  Append(data, <<synchTime, deliberationTime>>)

\* PerformanceMonitor::getData
getData(m) == m_tickData[m]

\* defaultMonitor with an instance of its own for every call.
defaultMonitorFresh ==
  [id |-> Cardinality(DOMAIN m_tickData) + 1, made |-> TRUE]

\* PerformanceMonitor::defaultMonitor: the function's static instance, which is
\* constructed when control first passes through its declaration.
defaultMonitor ==
  IF sl_instance = NoId
    THEN [id |-> Cardinality(DOMAIN m_tickData) + 1, made |-> TRUE]
    ELSE [id |-> sl_instance, made |-> FALSE]

MonitorInit ==
  /\ externals = << >>
  /\ reactors = << >>
  /\ pc = "monitor"
  /\ error = "none"
  /\ call = NoCall
  /\ AgentIdle
  /\ ClockIdle
  /\ ExtIdle

\* A call of PerformanceMonitor::defaultMonitor().
DefaultMonitorCall ==
  /\ pc = "monitor"
  /\ LET r == defaultMonitor
     IN  /\ r.made => Cardinality(DOMAIN m_tickData) < MaxMonitors
         /\ sl_instance' = r.id
         /\ m_tickData' = IF r.made THEN Append(m_tickData, << >>) ELSE m_tickData
         /\ added' = IF r.made THEN Append(added, << >>) ELSE added
         /\ returned' = returned \cup {r.id}
         /\ call' = [op |-> "defaultMonitor", result |-> r.id]
  /\ UNCHANGED << externals, reactors, pc, error, agentVars, clockVars, notMonitorVars >>

\* A StatisticsCollector is constructed.
NewCollector ==
  /\ pc = "monitor"
  /\ Cardinality(DOMAIN m_tickData) < MaxMonitors
  /\ m_tickData' = Append(m_tickData, << >>)
  /\ added' = Append(added, << >>)
  /\ call' = [op |-> "StatisticsCollector", result |-> Len(m_tickData) + 1]
  /\ UNCHANGED << externals, reactors, pc, error, agentVars, clockVars, notMonitorVars,
                  sl_instance, returned >>

\* The number of pairs held by the monitors from index m on.
RECURSIVE dataCount(_)
dataCount(m) == IF m > Len(m_tickData) THEN 0 ELSE Len(m_tickData[m]) + dataCount(m + 1)

\* A call of addTickData on monitor m.
AddTickDataCall(m, pair) ==
  /\ pc = "monitor"
  /\ dataCount(1) < MaxData
  /\ m_tickData' = [m_tickData EXCEPT ![m] = addTickData(@, pair[1], pair[2])]
  /\ added' = [added EXCEPT ![m] = Append(@, pair)]
  /\ call' = [op |-> "addTickData", arg |-> m, pair |-> pair]
  /\ UNCHANGED << externals, reactors, pc, error, agentVars, clockVars, notMonitorVars,
                  sl_instance, returned >>

\* A call of getData on monitor m.
GetDataCall(m) ==
  /\ pc = "monitor"
  /\ call' = [op |-> "getData", arg |-> m, result |-> getData(m)]
  /\ UNCHANGED << externals, reactors, pc, error, agentVars, clockVars, notMonitorVars,
                  monitorVars >>

MonitorNext ==
  \/ DefaultMonitorCall
  \/ NewCollector
  \/ \E m \in DOMAIN m_tickData : \E pair \in TickPairs : AddTickDataCall(m, pair)
  \/ \E m \in DOMAIN m_tickData : GetDataCall(m)

SpecMonitor == MonitorInit /\ [][MonitorNext]_vars

\* ------------------------------------------------------------ EuropaXML.cc
\* A domain is a record of what the AbstractDomain interface answers: its type
\* name, isEntity, isNumeric, isEnumerated (isInterval otherwise) and its
\* members, a set of values when enumerated and the bounds lb..ub when an
\* interval.  A value is an integer: as a number it counts halves (3 is 1.5),
\* otherwise it is the key of a label or of an object.
Values == (-MaxValue)..MaxValue

PLUS_INFINITY == MaxValue + 1

MINUS_INFINITY == -(MaxValue + 1)

TypeNames == {"bool", "BOOL", "int", "INT_INTERVAL", "float", "Color"}

BoolDomain_getDefaultTypeName == "bool"

IntervalIntDomain_getDefaultTypeName == "int"

isEmpty(d) == IF d.enumerated THEN d.values = {} ELSE d.lb > d.ub

isSingleton(d) == IF d.enumerated THEN Cardinality(d.values) = 1 ELSE d.lb = d.ub

getSingletonValue(d) == IF d.enumerated THEN CHOOSE v \in d.values : TRUE ELSE d.lb

\* getValues: the members in ascending order.
RECURSIVE listOf(_)
listOf(S) == IF S = {} THEN << >> ELSE << Min(S) >> \o listOf(S \ {Min(S)})

getValues(d) == listOf(d.values)

is_bool(typeName) ==
  typeName = "bool" \/ typeName = "BOOL" \/ typeName = BoolDomain_getDefaultTypeName

is_int(typeName) ==
  typeName = "int" \/ typeName = "INT_INTERVAL"
    \/ typeName = IntervalIntDomain_getDefaultTypeName

bool_val_to_str(value) == IF value # 0 THEN "true" ELSE "false"

\* The numeral of an infinite value, "" for a finite one.
infinite(value) ==
  IF value = PLUS_INFINITY THEN "PLUS_INFINITY"
  ELSE IF value = MINUS_INFINITY THEN "MINUS_INFINITY" ELSE ""

\* static_cast<int>: the number of halves truncated towards zero.
truncate(value) == IF value >= 0 THEN value \div 2 ELSE -((-value) \div 2)

int_val_to_str(value) ==
  IF infinite(value) # "" THEN infinite(value) ELSE ToString(truncate(value))

\* The fixed notation, six digits after the point.
double_val_to_str(value) ==
  IF infinite(value) # "" THEN infinite(value) \o ".000000"
  ELSE (IF value < 0 THEN "-" ELSE "")
         \o ToString((IF value < 0 THEN -value ELSE value) \div 2)
         \o (IF value % 2 = 0 THEN ".000000" ELSE ".500000")

\* The string behind a LabelStr key.
string_val_to_str(value) == "label" \o ToString(value)

\* The name of the object behind an ObjectId.
object_val_to_str(value) == "object" \o ToString(value)

\* A TiXmlElement without children; attrs are its SetAttribute calls in order.
Element(tag, attrs) == [tag |-> tag, attrs |-> attrs, children |-> << >>]

\* domain_val_to_xml that tests the type name before isEntity.
domain_val_to_xmlTypeFirst(d, value) ==
  IF is_bool(d.typeName)
    THEN Element("value", << <<"type", "bool">>, <<"name", bool_val_to_str(value)>> >>)
  ELSE IF d.entity
    THEN Element("object", << <<"value", object_val_to_str(value)>> >>)
  ELSE IF d.numeric
    THEN Element("value", << <<"type", d.typeName>>,
                             <<"name", IF is_int(d.typeName) THEN int_val_to_str(value)
                                       ELSE double_val_to_str(value)>> >>)
  ELSE Element("symbol", << <<"type", d.typeName>>, <<"value", string_val_to_str(value)>> >>)

domain_val_to_xml(d, value) ==
  IF d.entity
    THEN Element("object", << <<"value", object_val_to_str(value)>> >>)
  ELSE IF is_bool(d.typeName)
    THEN Element("value", << <<"type", "bool">>, <<"name", bool_val_to_str(value)>> >>)
  ELSE IF d.numeric
    THEN Element("value", << <<"type", d.typeName>>,
                             <<"name", IF is_int(d.typeName) THEN int_val_to_str(value)
                                       ELSE double_val_to_str(value)>> >>)
  ELSE Element("symbol", << <<"type", d.typeName>>, <<"value", string_val_to_str(value)>> >>)

\* domain_val_print_xml that writes every number in the fixed notation.
domain_val_print_xmlFixed(d, value) ==
  IF d.entity
    THEN "<object value=\"" \o object_val_to_str(value) \o "\" />"
  ELSE IF is_bool(d.typeName)
    THEN "<value type=\"bool\" name=\"" \o bool_val_to_str(value) \o "\" />"
  ELSE IF d.numeric
    THEN "<value type=\"" \o d.typeName \o "\" name=\""
           \o double_val_to_str(value) \o "\" />"
  ELSE "<symbol type=\"" \o d.typeName \o "\" value=\""
         \o string_val_to_str(value) \o "\" />"

\* The text domain_val_print_xml writes.
domain_val_print_xml(d, value) ==
  IF d.entity
    THEN "<object value=\"" \o object_val_to_str(value) \o "\" />"
  ELSE IF is_bool(d.typeName)
    THEN "<value type=\"bool\" name=\"" \o bool_val_to_str(value) \o "\" />"
  ELSE IF d.numeric
    THEN "<value type=\"" \o d.typeName \o "\" name=\""
           \o (IF is_int(d.typeName) THEN int_val_to_str(value) \o "\" />"
                                     ELSE double_val_to_str(value) \o "\" />")
  ELSE "<symbol type=\"" \o d.typeName \o "\" value=\""
         \o string_val_to_str(value) \o "\" />"

\* LabelStr::isString of a bound of the domain: the members of an entity domain
\* are object ids, those of any other symbolic domain are label keys.
LabelStr_isString(d) == ~d.entity

domain_val_to_str(d, value, symbolic) ==
  IF is_bool(d.typeName) THEN bool_val_to_str(value)
  ELSE IF d.numeric
    THEN IF symbolic /\ PLUS_INFINITY = value THEN "+inf"
         ELSE IF symbolic /\ MINUS_INFINITY = value THEN "-inf"
         ELSE IF is_int(d.typeName) THEN int_val_to_str(value)
         ELSE double_val_to_str(value)
  ELSE IF LabelStr_isString(d) THEN string_val_to_str(value)
  ELSE object_val_to_str(value)

\* to_xml: the sequence of its one element, << >> when it returns NULL.
to_xml(d) ==
  IF ~isEmpty(d)
    THEN IF isSingleton(d) THEN << domain_val_to_xml(d, getSingletonValue(d)) >>
         ELSE IF d.enumerated
           THEN LET values == getValues(d)
                IN  << [tag |-> "set", attrs |-> << <<"type", d.typeName>> >>,
                        children |-> [i \in 1..Len(values) |->
                                        domain_val_to_xml(d, values[i])]] >>
         ELSE << Element("interval",
                         << <<"type", d.typeName>>,
                            <<"min", domain_val_to_str(d, d.lb, symbolicDefault)>>,
                            <<"max", domain_val_to_str(d, d.ub, symbolicDefault)>> >>) >>
    ELSE << >>

\* The for loop of print_xml over the values from the i-th on.
RECURSIVE printValues(_, _, _)
printValues(d, values, i) ==
  IF i > Len(values) THEN ""
  ELSE domain_val_print_xml(d, values[i]) \o printValues(d, values, i + 1)

\* print_xml: whether its checkError fired and the text written to out.
print_xml(d) ==
  IF isEmpty(d) THEN [raised |-> TRUE, out |-> ""]
  ELSE IF isSingleton(d)
    THEN [raised |-> FALSE, out |-> domain_val_print_xml(d, getSingletonValue(d))]
  ELSE IF d.enumerated
    THEN LET values == getValues(d)
         IN  IF values # << >>
               THEN [raised |-> FALSE,
                     out |-> "<set type=\"" \o d.typeName \o "\">"
                               \o printValues(d, values, 1) \o "</set>"]
               ELSE [raised |-> FALSE, out |-> "<set type=\"" \o d.typeName \o "\"/>"]
  ELSE [raised |-> FALSE,
        out |-> "<interval type=\"" \o d.typeName
                  \o "\" min=\"" \o domain_val_to_str(d, d.lb, symbolicDefault)
                  \o "\" max=\"" \o domain_val_to_str(d, d.ub, symbolicDefault)
                  \o "\"/>"]

\* ------------------------------ specification of the domain serialization
Bounds == Values \cup {PLUS_INFINITY, MINUS_INFINITY}

DomainSet ==
  { [typeName |-> t, entity |-> e, numeric |-> n, enumerated |-> TRUE,
     values |-> vs, lb |-> 0, ub |-> 0] :
       t \in TypeNames, e \in BOOLEAN, n \in BOOLEAN, vs \in SUBSET Values }
  \cup
  { [typeName |-> t, entity |-> e, numeric |-> n, enumerated |-> FALSE,
     values |-> {}, lb |-> b[1], ub |-> b[2]] :
       t \in TypeNames, e \in BOOLEAN, n \in BOOLEAN, b \in Bounds \X Bounds }

XmlInit ==
  /\ externals = << >>
  /\ reactors = << >>
  /\ pc = "xml"
  /\ error = "none"
  /\ call = NoCall
  /\ AgentIdle
  /\ ClockIdle
  /\ ReactorIdle
  /\ FactoryIdle
  /\ ServerIdle
  /\ MonitorIdle
  /\ SortIdle
  /\ ObservationIdle
  /\ AssemblyIdle
  /\ domain \in DomainSet
  /\ symbolicDefault \in BOOLEAN

\* A call of to_xml(domain).
ToXml ==
  /\ pc = "xml"
  /\ call' = [op |-> "to_xml", result |-> to_xml(domain)]
  /\ error' = "none"
  /\ UNCHANGED << externals, reactors, pc, agentVars, clockVars, extVars >>

\* A call of print_xml(out, domain) on an empty stream.
PrintXml ==
  /\ pc = "xml"
  /\ LET r == print_xml(domain)
     IN  /\ call' = [op |-> "print_xml", result |-> r.out]
         /\ error' = IF r.raised THEN "unknown domain type" ELSE "none"
  /\ UNCHANGED << externals, reactors, pc, agentVars, clockVars, extVars >>

XmlNext == ToXml \/ PrintXml

SpecXml == XmlInit /\ [][XmlNext]_vars

\* ------------------------------------------------------------- Observer.cc
ParameterNames == 1..MaxNames

ParameterDomains == 1..MaxNames

\* ObservationByValue(objectName, predicateName): Observation(..., 0) and an
\* empty m_parameters.
ObservationByValue == [m_parameters |-> << >>, m_parameterCount |-> 0]

countParameters == m_parameterCount

\* push_back without the m_parameterCount++.
push_backUncounted(name, dom) ==
  [m_parameters |-> Append(m_parameters, << name, dom >>),
   m_parameterCount |-> m_parameterCount]

push_back(name, dom) ==
  [m_parameters |-> Append(m_parameters, << name, dom >>),
   m_parameterCount |-> m_parameterCount + 1]

\* ObservationByValue::operator[](index): the outcomes it can have.  Its
\* checkError fires when the count and the size differ; m_parameters[index]
\* past the end of the vector is undefined and can yield any pair.
subscript(index) ==
  IF countParameters # Len(m_parameters)
    THEN { [raised |-> TRUE, value |-> << >>] }
  ELSE IF index < Len(m_parameters)
    THEN { [raised |-> FALSE, value |-> m_parameters[index + 1]] }
  ELSE { [raised |-> FALSE, value |-> v] :
           v \in (ParameterNames \cup {0}) \X (ParameterDomains \cup {0}) }

ObservationInit ==
  /\ externals = << >>
  /\ reactors = << >>
  /\ pc = "observation"
  /\ error = "none"
  /\ call = NoCall
  /\ AgentIdle
  /\ ClockIdle
  /\ ExtIdle

\* An ObservationByValue is constructed.
NewObservation ==
  /\ pc = "observation"
  /\ observation = "none"
  /\ observation' = "alive"
  /\ m_parameters' = ObservationByValue.m_parameters
  /\ m_parameterCount' = ObservationByValue.m_parameterCount
  /\ call' = [op |-> "ObservationByValue"]
  /\ UNCHANGED << externals, reactors, pc, error, agentVars, clockVars,
                  notObservationVars, pushed >>

\* A call of push_back(name, dom).
PushBackCall(name, dom) ==
  /\ pc = "observation"
  /\ observation = "alive"
  /\ Len(pushed) < MaxParameters
  /\ LET r == push_back(name, dom)
     IN  /\ m_parameters' = r.m_parameters
         /\ m_parameterCount' = r.m_parameterCount
  /\ pushed' = Append(pushed, << name, dom >>)
  /\ call' = [op |-> "push_back", name |-> name, dom |-> dom]
  /\ UNCHANGED << externals, reactors, pc, error, agentVars, clockVars,
                  notObservationVars, observation >>

\* A call of countParameters().
CountParametersCall ==
  /\ pc = "observation"
  /\ observation = "alive"
  /\ call' = [op |-> "countParameters", result |-> countParameters]
  /\ UNCHANGED << externals, reactors, pc, error, agentVars, clockVars,
                  notObservationVars, observationVars >>

\* A call of operator[](index) with an index below countParameters(), as the
\* loops of toString and printXML make it.
SubscriptCall(index) ==
  /\ pc = "observation"
  /\ observation = "alive"
  /\ index < countParameters
  /\ \E r \in subscript(index) :
       /\ call' = [op |-> "subscript", index |-> index, result |-> r.value]
       /\ error' = IF r.raised THEN "count" ELSE "none"
  /\ UNCHANGED << externals, reactors, pc, agentVars, clockVars,
                  notObservationVars, observationVars >>

ObservationNext ==
  \/ NewObservation
  \/ \E name \in ParameterNames : \E dom \in ParameterDomains : PushBackCall(name, dom)
  \/ CountParametersCall
  \/ \E index \in 0..(MaxParameters + 1) : SubscriptCall(index)

SpecObservation == ObservationInit /\ [][ObservationNext]_vars

\* ------------------------------------------------------------- Assembly.cc
\* Assembly::getPPW(): the writer returned and the members after the call.
getPPW ==
  IF m_ppw = NoId
    THEN [result |-> nextWriter + 1, m_ppw |-> nextWriter + 1,
          liveWriters |-> liveWriters \cup {nextWriter + 1}, nextWriter |-> nextWriter + 1]
    ELSE [result |-> m_ppw, m_ppw |-> m_ppw, liveWriters |-> liveWriters,
          nextWriter |-> nextWriter]

\* Assembly::exportToPlanWorks(tick, attempt)
exportToPlanWorks(tick, attempt) ==
  LET w == getPPW
  IN  [reply |-> "DONE", m_ppw |-> w.m_ppw, liveWriters |-> w.liveWriters,
       nextWriter |-> w.nextWriter, written |-> Append(written, << tick, attempt >>)]

\* Assembly::~Assembly(): the writers left after if(m_ppw == NULL) delete m_ppw.
destroyAssembly == IF m_ppw = NoId THEN liveWriters \ {m_ppw} ELSE liveWriters

AssemblyInit ==
  /\ externals = << >>
  /\ reactors = << >>
  /\ pc = "assembly"
  /\ error = "none"
  /\ call = NoCall
  /\ AgentIdle
  /\ ClockIdle
  /\ ExtIdle

\* Assembly(agentName, reactorName): m_ppw = NULL.
NewAssembly ==
  /\ pc = "assembly"
  /\ assembly = "none"
  /\ assembly' = "alive"
  /\ m_ppw' = NoId
  /\ call' = [op |-> "Assembly"]
  /\ UNCHANGED << externals, reactors, pc, error, agentVars, clockVars,
                  notAssemblyVars, liveWriters, nextWriter, written >>

\* A call of getPPW().
GetPPWCall ==
  /\ pc = "assembly"
  /\ assembly = "alive"
  /\ LET r == getPPW
     IN  /\ m_ppw' = r.m_ppw
         /\ liveWriters' = r.liveWriters
         /\ nextWriter' = r.nextWriter
         /\ call' = [op |-> "getPPW", result |-> r.result]
  /\ UNCHANGED << externals, reactors, pc, error, agentVars, clockVars,
                  notAssemblyVars, assembly, written >>

\* A call of exportToPlanWorks(tick, attempt).
ExportToPlanWorksCall(tick, attempt) ==
  /\ pc = "assembly"
  /\ assembly = "alive"
  /\ Len(written) < MaxWrites
  /\ LET r == exportToPlanWorks(tick, attempt)
     IN  /\ m_ppw' = r.m_ppw
         /\ liveWriters' = r.liveWriters
         /\ nextWriter' = r.nextWriter
         /\ written' = r.written
         /\ call' = [op |-> "exportToPlanWorks", tick |-> tick, attempt |-> attempt,
                     result |-> r.reply]
  /\ UNCHANGED << externals, reactors, pc, error, agentVars, clockVars,
                  notAssemblyVars, assembly >>

\* The Assembly is destroyed.
DeleteAssembly ==
  /\ pc = "assembly"
  /\ assembly = "alive"
  /\ assembly' = "destroyed"
  /\ liveWriters' = destroyAssembly
  /\ call' = [op |-> "~Assembly"]
  /\ UNCHANGED << externals, reactors, pc, error, agentVars, clockVars,
                  notAssemblyVars, m_ppw, nextWriter, written >>

AssemblyNext ==
  \/ NewAssembly
  \/ GetPPWCall
  \/ \E tick \in 0..MaxTick : \E attempt \in 0..MaxAttempt :
       ExportToPlanWorksCall(tick, attempt)
  \/ DeleteAssembly

SpecAssembly == AssemblyInit /\ [][AssemblyNext]_vars

\* ============================================================== properties
\* The reactors that own an external timeline of r.
Owners(r) == { getOwner(t) : t \in externals[r] } \ {NoId}

\* The reactors reachable from the set S along at most k dependency edges.
RECURSIVE ReachWithin(_, _)
ReachWithin(S, k) ==
  IF k = 0 THEN S ELSE ReachWithin(S \cup UNION { Owners(x) : x \in S }, k - 1)

DependsOnTransitively(r) == ReachWithin(Owners(r), getReactorCount)

Acyclic == \A r \in DOMAIN externals : r \notin DependsOnTransitively(r)

\* The dependency chains r = c[1] -> c[2] -> ... of at most n reactors.
ChainsFrom(r) ==
  { c \in UNION { [1..m -> DOMAIN externals] : m \in 1..getReactorCount } :
      /\ c[1] = r
      /\ \A i \in 1..(Len(c) - 1) : c[i + 1] \in Owners(c[i]) }

\* The number of edges of the longest dependency chain below r.
LongestChain(r) == Max({ Len(c) - 1 : c \in ChainsFrom(r) })

Ascending(v) == \A i, j \in DOMAIN v : i < j => LongestChain(v[i]) <= LongestChain(v[j])

Topological(v) ==
  \A r \in DOMAIN externals : \A o \in Owners(r) : IndexOf(v, r) > IndexOf(v, o)

AllReactors == DOMAIN externals

Running == pc \in {"poll", "tickstart", "sync", "delib", "done"}

\* C1: in every tick each reactor is synchronized exactly once (never twice
\* since its tick start, and once by the time deliberation begins), and a
\* reactor that has synchronized for the tick has every owner of its external
\* timelines already synchronized for that tick.
C1_SyncOncePerTickAfterOwners ==
  (Running /\ currentTick >= 0) =>
    \A r \in AllReactors :
      /\ m_syncCount[r] <= 1
      /\ lastTickStart[r] = currentTick =>
           (m_syncCount[r] = 1 <=> lastSync[r] = currentTick)
      /\ pc \in {"delib", "poll", "done"} =>
           (m_syncCount[r] = 1 /\ lastSync[r] = currentTick)
      /\ lastSync[r] = currentTick =>
           \A o \in Owners(r) : o # r /\ lastSync[o] = currentTick

C1_Witness ==
  /\ pc = "delib"
  /\ currentTick = 1
  /\ getReactorCount = 3
  /\ reactors # << 1, 2, 3 >>
  /\ \E r \in AllReactors : \E o \in Owners(r) : Owners(o) # {}

\* C2: on an acyclic configuration sort completes, and the sorted vector is in
\* ascending priority and lists every reactor after the owners of its
\* external timelines.
C2_SortIsTopological ==
  /\ (pc # "unsorted" /\ Acyclic) => pc = "sorted"
  /\ pc = "sorted" => (Ascending(reactors) /\ Topological(reactors))

C2_Witness ==
  /\ pc = "sorted"
  /\ call.arg = << 3, 2, 1 >>
  /\ reactors = << 1, 2, 3 >>
  /\ externals = << {}, {1}, {2} >>

\* C3: a getPriority that returns gives 0 to a reactor without externals and
\* otherwise one more than the largest priority among the owners of its
\* externals, which is the length of the longest dependency chain below it,
\* and more than the priority of every reactor it depends on.
C3_PriorityIsLongestChain ==
  (call.op = "getPriority" /\ call.result # CycleError) =>
    /\ externals[call.arg] = {} => call.result = 0
    /\ externals[call.arg] # {} =>
         call.result = 1 + Max({ LongestChain(o) : o \in Owners(call.arg) })
    /\ call.result = LongestChain(call.arg)
    /\ \A o \in Owners(call.arg) : call.result > getPriority(o, 0)

C3_Witness ==
  /\ call.op = "getPriority"
  /\ call.result = 2
  /\ Cardinality(externals[call.arg]) = 2

\* C4: with a cycle in the dependency graph, initialisation fails with the
\* cycle error, and after the failure no tick starts: the clock was never
\* polled, no reactor got a tick start, a synchronize or a resume, and no
\* further step of the agent is possible.
C4_CycleFailsInit ==
  /\ (call.op = "init" /\ ~Acyclic) => (pc = "failed" /\ error = "cycle")
  /\ pc = "failed" =>
       /\ ~Acyclic
       /\ call.op = "init"
       /\ currentTick = -1
       /\ m_internalTicks = 0
       /\ \A r \in AllReactors : lastTickStart[r] = -1 /\ lastSync[r] = -1
       /\ ~ENABLED Next
  /\ Running => error = "none"

C4_Witness ==
  /\ pc = "failed"
  /\ externals = << {2}, {1} >>

\* C5: within a tick the tick-start pass covers every reactor, in vector
\* order, before any synchronize, and the synchronize pass covers every
\* reactor, in vector order, before any resume.
C5_PhasesOrdered ==
  (Running /\ currentTick >= 0) =>
    /\ pc = "tickstart" =>
         \A i \in 1..Count : (lastTickStart[reactors[i]] = currentTick <=> i <= idx)
    /\ pc = "sync" =>
         \A i \in 1..Count : (lastSync[reactors[i]] = currentTick <=> i <= idx)
    /\ \A r \in AllReactors :
         lastSync[r] = currentTick =>
           \A s \in AllReactors : lastTickStart[s] = currentTick
    /\ pc = "delib" => \A s \in AllReactors : lastSync[s] = currentTick
    /\ \A r \in AllReactors :
         (m_searchCount[r] > 0 /\ lastTickStart[r] = currentTick) =>
           \A s \in AllReactors : lastSync[s] = currentTick

C5_Witness ==
  /\ pc = "poll"
  /\ currentTick = 1
  /\ Count = 3
  /\ \E r \in AllReactors : m_searchCount[r] = 2

\* notify delivers an observation on timeline t to reactor s in this step.
Delivered(s, t) == t \in inbox'[s] /\ t \notin inbox[s]

\* C6: an observation on a timeline is delivered only in the synchronize of
\* the timeline's owner, which is the owner's first synchronize of the tick;
\* in that same step every subscriber is notified, none of them has yet
\* synchronized for the tick, and a notified observation stays with the
\* subscriber until its own synchronize.
C6_ObservationBeforeSubscriberSync ==
  [][ \A t \in AllReactors :
        /\ (\E s \in AllReactors : Delivered(s, t)) =>
             /\ call'.op = "synchronize" /\ call'.arg = getOwner(t)
             /\ lastSync[t] < currentTick /\ lastSync'[t] = currentTick
             /\ \A s \in Subscribers(t) :
                  t \in inbox'[s] /\ lastSync[s] < currentTick
        /\ \A s \in AllReactors :
             (t \in inbox[s] /\ t \notin inbox'[s]) =>
               (call'.op = "synchronize" /\ call'.arg = s)
    ]_vars

C6_Witness ==
  /\ pc = "sync"
  /\ currentTick = 1
  /\ \E s \in AllReactors :
       /\ Cardinality(inbox[s]) = 2
       /\ lastSync[s] < currentTick

\* C7: a resume goes only to a reactor that has work and that precedes, in
\* the vector (which is in sorted order), every other reactor that has work;
\* with work pending somebody is resumed; with no reactor
\* having work the step of the deliberation phase is a sleep and nobody is
\* resumed.
C7_ResumeFirstWithWork ==
  [][ /\ \A r \in AllReactors :
           m_searchCount'[r] > m_searchCount[r] =>
             /\ pc = "delib"
             /\ hasWork[r]
             /\ \A s \in AllReactors :
                  (hasWork[s] /\ s # r) => IndexOf(reactors, r) < IndexOf(reactors, s)
             /\ sort(reactors).v = reactors
      /\ (pc = "delib" /\ \E r \in AllReactors : hasWork[r]) =>
           \E r \in AllReactors : m_searchCount'[r] = m_searchCount[r] + 1
      /\ (pc = "delib" /\ \A r \in AllReactors : ~hasWork[r]) =>
           (call'.op = "sleep" /\ m_searchCount' = m_searchCount)
    ]_vars

C7_Witness ==
  /\ call.op = "resume"
  /\ \E s \in AllReactors :
       /\ hasWork[s]
       /\ IndexOf(reactors, s) > IndexOf(reactors, call.arg)
       /\ call.arg \in Owners(s)

\* C8: a resume is granted only when every reactor has had its tick start and
\* its synchronize for the tick the clock last reported.
C8_NoResumeAcrossTick ==
  [][ (\E r \in AllReactors : m_searchCount'[r] > m_searchCount[r]) =>
        \A s \in AllReactors :
          lastTickStart[s] = m_tick /\ lastSync[s] = m_tick
    ]_vars

C8_Witness ==
  /\ call.op = "resume"
  /\ m_tick = 1
  /\ m_stepsPerTick = 2
  /\ m_internalTicks = 4

\* C9: the ticks a clock returns never decrease from one poll to the next.
C9_TickMonotone ==
  \A i, j \in DOMAIN polls : i <= j => polls[i] <= polls[j]

C9_Witness ==
  /\ clockKind = "realtime"
  /\ Len(polls) >= 4
  /\ polls[1] < polls[Len(polls)]
  /\ polls[2] = polls[3]

\* C10: the n-th poll of a PseudoClock with k steps per tick returns
\* floor((n-1)/k), whatever the wall time; k=3 gives 0,0,0,1,1,1,2,2,2,3,3,3
\* over 12 polls and k=2 gives 0,0,1,1,2,2 over 6.
C10_StepClockSequence ==
  clockKind = "pseudo" =>
    /\ \A n \in DOMAIN polls : polls[n] = (n - 1) \div m_stepsPerTick
    /\ (m_stepsPerTick = 3 /\ Len(polls) = 12) =>
         polls = << 0, 0, 0, 1, 1, 1, 2, 2, 2, 3, 3, 3 >>
    /\ (m_stepsPerTick = 2 /\ Len(polls) = 6) =>
         polls = << 0, 0, 1, 1, 2, 2 >>

C10_Witness ==
  /\ clockKind = "pseudo"
  /\ m_stepsPerTick = 3
  /\ Len(polls) = 12
  /\ now > 0

\* C11: once start() has latched the epoch, every poll of a RealTimeClock of
\* period p returns floor((now - epoch) / p), and the sleep delay is the time
\* left to the boundary that ends the last polled tick, 0 once that boundary has
\* passed, and never negative.
C11_RealTimeTickAndSleepDelay ==
  /\ (call.op = "getNextTick" /\ clockKind = "realtime" /\ call.started) =>
        /\ call.result * m_secondsPerTick <= call.at - epoch
        /\ call.at - epoch < (call.result + 1) * m_secondsPerTick
  /\ call.op = "getSleepDelay" =>
        LET boundary == epoch + (m_tick + 1) * m_secondsPerTick
        IN  /\ call.result >= 0
            /\ boundary > call.at => call.result = boundary - call.at
            /\ boundary <= call.at => call.result = 0

C11_Witness ==
  /\ call.op = "getSleepDelay"
  /\ epoch > 0
  /\ m_tick > 0
  /\ call.at > epoch + (m_tick + 1) * m_secondsPerTick
  /\ call.result = 0

\* C12: a reactor exists only if its latency is at most its lookAhead: either
\* constructor given a larger latency ends in the error and no reactor; and
\* getLatency / getLookAhead return the values the reactor was constructed
\* with (the agent's final tick for a missing lookAhead attribute), whatever
\* has been called on it since.
C12_LatencyWithinLookAhead ==
  LET asked == IF built.ctor = "xml" /\ built.lookAhead = << >>
                 THEN MaxTick ELSE built.lookAhead[1]
  IN  /\ reactorState = "alive" =>
            /\ getLatency <= getLookAhead
            /\ getLatency = built.latency
            /\ getLookAhead = asked
      /\ reactorState # "none" =>
            (reactorState = "rejected" <=> built.latency > asked)
      /\ reactorState = "rejected" => error = "latency"
      /\ call.op = "getLatency" => call.result = built.latency
      /\ call.op = "getLookAhead" => call.result = asked

C12_Witness ==
  /\ reactorState = "alive"
  /\ built.ctor = "xml"
  /\ built.lookAhead = << >>
  /\ built.latency = MaxTick
  /\ resetDone
  /\ syncCalls > 0
  /\ resumeCalls > 0
  /\ call.op = "getLatency"

\* C14: once doHandleInit or doHandleTickStart has been called on a reactor, its
\* sync count is the number of doSynchronize calls and its search count the
\* number of doResume calls since the latest of them; either of them zeroes
\* both counts and both usages; doSynchronize adds one to the sync count and
\* leaves the search count, doResume adds one to the search count and leaves
\* the sync count.
C14_CountersSinceTickStart ==
  [][ /\ resetDone' => /\ m_syncCount'[1] = syncCalls'
                       /\ m_searchCount'[1] = resumeCalls'
      /\ call'.op \in {"doHandleInit", "doHandleTickStart"} =>
            /\ m_syncCount'[1] = 0
            /\ m_searchCount'[1] = 0
            /\ m_syncUsage'[1] = 0
            /\ m_searchUsage'[1] = 0
      /\ call'.op = "synchronize" =>
            /\ m_syncCount'[1] = m_syncCount[1] + 1
            /\ m_searchCount'[1] = m_searchCount[1]
      /\ call'.op = "resume" =>
            /\ m_searchCount'[1] = m_searchCount[1] + 1
            /\ m_syncCount'[1] = m_syncCount[1]
    ]_vars

C14_Witness ==
  /\ resetDone
  /\ call.op = "resume"
  /\ syncCalls = MaxCalls
  /\ m_syncCount[1] = MaxCalls
  /\ m_searchCount[1] = 1
  /\ m_syncUsage[1] > 0

\* C13: constructing a factory under a name that is in the table raises "already
\* registered" and leaves the table as it was; getFactory of a name that has
\* not been registered since the last purgeAll returns the no-id value; and
\* createInstance of such a name raises "not registered" and constructs
\* nothing.
C13_RegistryErrors ==
  [][ /\ (call'.op = "Factory" /\ call'.name \in DOMAIN lookupTable) =>
            /\ error' = "already registered"
            /\ lookupTable' = lookupTable
      /\ (call'.op = "getFactory" /\ call'.name \notin registered) =>
            call'.result = NoId
      /\ (call'.op = "createInstance" /\ call'.name \notin registered) =>
            /\ error' = "not registered"
            /\ call'.result = FALSE
    ]_vars

C13_Witness ==
  /\ call.op = "createInstance"
  /\ error = "not registered"
  /\ call.result = FALSE
  /\ registered = {}
  /\ aliveFactories = {}
  /\ nextFactory = FactoryNames

\* C15: a request or recall submitted to the server connector of a reactor is
\* logged with the agent, then handled by that reactor's handleRequest or
\* handleRecall, and only then returns; and a handler never runs except as the
\* second step of a submission to its own reactor's connector.
C15_GoalDeliveredToOwner ==
  LET log(kind)     == IF kind = "request" THEN "logRequest" ELSE "logRecall"
      handler(kind) == IF kind = "request" THEN "handleRequest" ELSE "handleRecall"
  IN  /\ \A i \in DOMAIN trace :
            trace[i].ev \in {"request", "recall"} =>
              /\ i + 3 <= Len(trace)
              /\ trace[i + 1].ev = log(trace[i].ev)
              /\ trace[i + 1].goal = trace[i].goal
              /\ trace[i + 2].ev = handler(trace[i].ev)
              /\ trace[i + 2].reactor = trace[i].reactor
              /\ trace[i + 2].goal = trace[i].goal
              /\ trace[i + 3].ev = "return"
      /\ \A j \in DOMAIN trace :
            trace[j].ev \in {"handleRequest", "handleRecall"} =>
              /\ j > 2
              /\ trace[j - 2].ev \in {"request", "recall"}
              /\ trace[j - 2].reactor = trace[j].reactor

C15_Witness ==
  /\ Len(trace) = 4 * MaxRequests
  /\ \E i, j \in DOMAIN trace :
       /\ trace[i].ev = "handleRequest"
       /\ trace[j].ev = "handleRecall"
       /\ trace[i].reactor # trace[j].reactor

HasUnowned == \E r \in DOMAIN externals : \E t \in externals[r] : getOwner(t) = NoId

C18_HistoryAppendOnly ==
  [][ /\ call'.op = "addTickData" =>
            /\ m_tickData'[call'.arg] = Append(m_tickData[call'.arg], call'.pair)
            /\ \A o \in DOMAIN m_tickData \ {call'.arg} : m_tickData'[o] = m_tickData[o]
      /\ \A m \in DOMAIN m_tickData :
            /\ Len(m_tickData'[m]) >= Len(m_tickData[m])
            /\ SubSeq(m_tickData'[m], 1, Len(m_tickData[m])) = m_tickData[m]
      /\ \A m \in DOMAIN m_tickData' : m_tickData'[m] = added'[m]
      /\ call'.op = "getData" => call'.result = added[call'.arg]
      /\ call'.op = "defaultMonitor" =>
            /\ call'.result = sl_instance'
            /\ sl_instance # NoId => /\ call'.result = sl_instance
                                     /\ DOMAIN m_tickData' = DOMAIN m_tickData
            /\ sl_instance = NoId => call'.result \notin DOMAIN m_tickData
      /\ Cardinality(returned') <= 1
    ]_vars

C18_Witness ==
  /\ call.op = "getData"
  /\ call.arg = sl_instance
  /\ Len(m_tickData) = MaxMonitors
  /\ Len(call.result) = MaxData
  /\ call.result[1] # call.result[2]
  /\ call.result[1][1] # call.result[1][2]

\* The numeral of the whole part of a number of halves, sign kept.
WholeNumeral(v) ==
  IF v \in Values
    THEN ToString(CHOOSE n \in Values : /\ (v >= 0 => n >= 0 /\ 2 * n <= v /\ v < 2 * n + 2)
                                        /\ (v < 0 => n <= 0 /\ 2 * n >= v /\ v > 2 * n - 2))
    ELSE infinite(v)

\* The numeral of a number of halves in fixed-point notation.
FixedNumeral(v) ==
  IF v \in Values
    THEN CASE v = -4 -> "-2.000000" [] v = -3 -> "-1.500000" [] v = -2 -> "-1.000000"
           [] v = -1 -> "-0.500000" [] v = 0 -> "0.000000" [] v = 1 -> "0.500000"
           [] v = 2 -> "1.000000" [] v = 3 -> "1.500000" [] v = 4 -> "2.000000"
           [] OTHER -> double_val_to_str(v)
    ELSE infinite(v) \o ".000000"

\* The one element the rules give for the single value v of domain d.
SingleElement(d, v) ==
  CASE d.entity ->
         [tag |-> "object", attrs |-> << <<"value", "object" \o ToString(v)>> >>,
          children |-> << >>]
    [] ~d.entity /\ d.typeName \in {"bool", "BOOL"} ->
         [tag |-> "value",
          attrs |-> << <<"type", "bool">>, <<"name", IF v = 0 THEN "false" ELSE "true">> >>,
          children |-> << >>]
    [] ~d.entity /\ d.typeName \notin {"bool", "BOOL"} /\ d.numeric ->
         [tag |-> "value",
          attrs |-> << <<"type", d.typeName>>,
                       <<"name", IF d.typeName \in {"int", "INT_INTERVAL"}
                                   THEN WholeNumeral(v) ELSE FixedNumeral(v)>> >>,
          children |-> << >>]
    [] OTHER ->
         [tag |-> "symbol",
          attrs |-> << <<"type", d.typeName>>, <<"value", "label" \o ToString(v)>> >>,
          children |-> << >>]

\* The text of a childless element: its attributes in order, then " />".
RECURSIVE AttributeText(_, _)
AttributeText(attrs, i) ==
  IF i > Len(attrs) THEN ""
  ELSE " " \o attrs[i][1] \o "=\"" \o attrs[i][2] \o "\"" \o AttributeText(attrs, i + 1)

ElementText(e) == "<" \o e.tag \o AttributeText(e.attrs, 1) \o " />"

TheValue(d) == IF d.enumerated THEN CHOOSE v \in d.values : d.values = {v} ELSE d.lb

\* C19: a domain holding exactly one value is serialized by to_xml and by
\* print_xml as exactly one childless element: "object" with the object's name
\* for an entity domain; else "value" with type "bool" and name true or false
\* for a boolean type; else, for a numeric domain, "value" with the domain's
\* type name and the value as an integer numeral for the integer types and in
\* fixed-point notation otherwise; else "symbol" with the type name and the
\* string of the value.  This holds whether the domain is enumerated or an
\* interval: it is never written as a set or an interval.
C19_SingletonIsOneElement ==
  (domain.enumerated /\ Cardinality(domain.values) = 1) \/ (~domain.enumerated /\ domain.lb = domain.ub)
    => /\ call.op = "to_xml" =>
            /\ call.result = << SingleElement(domain, TheValue(domain)) >>
            /\ call.result[1].tag \notin {"set", "interval"}
            /\ error = "none"
       /\ call.op = "print_xml" =>
            /\ call.result = ElementText(SingleElement(domain, TheValue(domain)))
            /\ error = "none"

C19_Witness ==
  /\ domain.enumerated
  /\ domain.values = {-1}
  /\ domain.numeric
  /\ ~domain.entity
  /\ domain.typeName = "float"
  /\ call.op = "print_xml"
  /\ call.result = "<value type=\"float\" name=\"-0.500000\" />"

\* C20: serializing an empty domain emits nothing and does not fail: to_xml
\* returns no element, print_xml writes no output, and neither raises an error.
C20_EmptyDomainEmitsNothing ==
  (IF domain.enumerated THEN domain.values = {} ELSE domain.lb > domain.ub)
    => /\ call.op = "to_xml" => call.result = << >> /\ error = "none"
       /\ call.op = "print_xml" => call.result = "" /\ error = "none"

\* C21: an enumerated domain with no values is serialized as a self-closing
\* set element carrying its type (to_xml: a "set" element with the type and no
\* child; print_xml: <set type="T"/>), and an enumerated domain with two or
\* more values as a set element with exactly one child per value.
C21_EnumeratedIsSet ==
  domain.enumerated =>
    /\ domain.values = {} =>
         /\ call.op = "to_xml" =>
              /\ call.result = << [tag |-> "set", attrs |-> << <<"type", domain.typeName>> >>,
                                   children |-> << >>] >>
              /\ error = "none"
         /\ call.op = "print_xml" =>
              /\ call.result = "<set type=\"" \o domain.typeName \o "\"/>"
              /\ error = "none"
    /\ Cardinality(domain.values) >= 2 =>
         /\ call.op = "to_xml" =>
              /\ Len(call.result) = 1
              /\ call.result[1].tag = "set"
              /\ call.result[1].attrs = << <<"type", domain.typeName>> >>
              /\ Len(call.result[1].children) = Cardinality(domain.values)
              /\ error = "none"
         /\ call.op = "print_xml" => error = "none"

\* v lists the same reactors as w: none added, dropped or duplicated.
PermutationOf(v, w) ==
  /\ Len(v) = Len(w)
  /\ \A r \in { w[i] : i \in DOMAIN w } : Cardinality({ i \in DOMAIN v : v[i] = r }) = 1
  /\ \A r \in { w[i] : i \in DOMAIN w } : Cardinality({ i \in DOMAIN w : w[i] = r }) = 1

\* The reactors of v stand in ascending priority, and those of equal priority
\* in the order they had in w: the one such arrangement of w.
StableOrderOf(v, w) ==
  \A i, j \in DOMAIN v :
    i < j => \/ getPriority(v[i], 0) < getPriority(v[j], 0)
             \/ /\ getPriority(v[i], 0) = getPriority(v[j], 0)
                /\ IndexOf(w, v[i]) < IndexOf(w, v[j])

\* C22: sort only permutes the vector, whether it completes or fails; a sort
\* that completes puts the reactors in ascending priority and keeps those of
\* equal priority in their input order, so its result is fixed by the
\* configuration and the input; sorting an already sorted vector, and sorting
\* the result again, changes nothing.
C22_SortIsStablePermutation ==
  /\ pc # "unsorted" => PermutationOf(reactors, call.arg)
  /\ pc = "sorted" =>
       /\ StableOrderOf(reactors, call.arg)
       /\ (\A i \in 1..(Len(call.arg) - 1) :
             getPriority(call.arg[i], 0) <= getPriority(call.arg[i + 1], 0))
            => reactors = call.arg
       /\ sort(reactors) = [v |-> reactors, swapped |-> FALSE, err |-> FALSE, codes |-> {}]

C22_Witness ==
  /\ pc = "sorted"
  /\ externals = << {3}, {}, {} >>
  /\ call.arg = << 1, 3, 2 >>
  /\ reactors = << 3, 2, 1 >>

\* The pairs of positions of v whose reactors stand against their priorities.
Inversions(v) ==
  Cardinality({ p \in (DOMAIN v) \X (DOMAIN v) :
                  p[1] < p[2] /\ getPriority(v[p[2]], 0) < getPriority(v[p[1]], 0) })

\* What is left of the statement-by-statement sort: the inversions still to
\* remove (one more when a further pass is already due), then what is left of
\* the pass under way.
SortRank(v, isSwapped, at, n, i) ==
  ((Inversions(v) + (IF isSwapped \/ at = "unsorted" THEN 1 ELSE 0)) * (2 * Len(v) + 4))
    + CASE at = "unsorted" -> 2 * Len(v) + 3
        [] at = "while"    -> 1
        [] at = "for"      -> 2 + (IF n > i THEN n - i ELSE 0)
        [] OTHER           -> 0

\* C23: over an acyclic configuration sort always comes to its end, for the
\* empty and the one-element vector too: no step fails, every exchange removes
\* exactly one inversion, and every step up to the return lowers a rank that is
\* never negative, so only finitely many steps and passes are made; at the
\* return no inversion is left.
C23_SortTerminates ==
  [][ Acyclic =>
        LET before == SortRank(reactors, l_swapped, pc, l_count, idx)
            after  == SortRank(reactors', l_swapped', pc', l_count', idx')
        IN  /\ pc' \in {"while", "for", "sorted"}
            /\ reactors' # reactors => Inversions(reactors') = Inversions(reactors) - 1
            /\ after < before
            /\ after >= 0
            /\ pc' = "sorted" => Inversions(reactors') = 0
    ]_vars

C23_Witness ==
  /\ pc = "sorted"
  /\ externals = << {}, {1}, {2} >>
  /\ call.arg = << 3, 2, 1 >>
  /\ reactors = << 1, 2, 3 >>
  /\ idx = 2
  /\ ~l_swapped

\* C24: on an acyclic configuration in which every external timeline has an
\* owner, getPriority called with call count 0 returns for every reactor, a
\* priority below the reactor count, and raises neither the cycle error nor
\* any other; this includes the reactor at the top of one dependency chain
\* through all the reactors.
C24_NoFalseCycle ==
  (call.op = "getPriority" /\ Acyclic
     /\ \A r \in DOMAIN externals : \A t \in externals[r] : getOwner(t) # NoId)
    => /\ call.result # CycleError
       /\ call.result >= 0
       /\ call.result < getReactorCount
       /\ error = "none"

C24_Witness ==
  /\ call.op = "getPriority"
  /\ getReactorCount = NReactors
  /\ \A r \in DOMAIN externals : externals[r] = (IF r = 1 THEN {} ELSE {r - 1})
  /\ call.arg = NReactors
  /\ call.result = NReactors - 1
  /\ error = "none"

\* C25: a by-value observation starts with no parameter and count 0; each
\* push_back appends its one parameter and adds one to the count; after any
\* sequence of push_back calls countParameters() is the number of stored
\* parameters, every index below it is inside the stored parameters, and
\* indexed access there raises no error and returns the parameter pushed at
\* that position.
C25_CountIsStoredParameters ==
  [][ /\ call'.op = "ObservationByValue" =>
            m_parameterCount' = 0 /\ m_parameters' = << >>
      /\ call'.op = "push_back" =>
            /\ m_parameterCount' = m_parameterCount + 1
            /\ m_parameters' = Append(m_parameters, << call'.name, call'.dom >>)
      /\ m_parameterCount' = Len(m_parameters')
      /\ m_parameterCount' = Len(pushed')
      /\ \A i \in 0..(m_parameterCount' - 1) :
            /\ i + 1 \in DOMAIN m_parameters'
            /\ m_parameters'[i + 1] = pushed'[i + 1]
      /\ call'.op = "countParameters" => call'.result = Len(pushed)
      /\ call'.op = "subscript" =>
            /\ error' = "none"
            /\ call'.result = pushed[call'.index + 1]
    ]_vars

C25_Witness ==
  /\ call.op = "subscript"
  /\ m_parameterCount = MaxParameters
  /\ call.index = MaxParameters - 1
  /\ pushed[1] # pushed[MaxParameters]
  /\ call.result = pushed[MaxParameters]

\* The text of the children from the i-th on, each a childless element.
RECURSIVE ChildrenText(_, _)
ChildrenText(children, i) ==
  IF i > Len(children) THEN ""
  ELSE ElementText(children[i]) \o ChildrenText(children, i + 1)

\* An element tree written out: tag, attributes in order, children in order.
TreeText(e) ==
  IF e.tag = "set"
    THEN "<set" \o AttributeText(e.attrs, 1) \o ">"
           \o ChildrenText(e.children, 1) \o "</set>"
  ELSE IF e.tag = "interval" THEN "<interval" \o AttributeText(e.attrs, 1) \o "/>"
  ELSE ElementText(e)

\* C26: for every domain that is not empty (one value, an enumeration of two
\* or more values, an interval) to_xml and print_xml give the same
\* serialization: neither fails, to_xml returns one element, and that element
\* written out (its tag, its attributes with their values, its children in
\* order) is the text print_xml writes.
C26_SameSerialization ==
  ~(IF domain.enumerated THEN domain.values = {} ELSE domain.lb > domain.ub)
    => /\ error = "none"
       /\ call.op = "to_xml" =>
            /\ Len(call.result) = 1
            /\ TreeText(call.result[1]) = print_xml(domain).out
            /\ ~print_xml(domain).raised
       /\ call.op = "print_xml" =>
            /\ Len(to_xml(domain)) = 1
            /\ call.result = TreeText(to_xml(domain)[1])

C26_Witness ==
  /\ ~domain.enumerated
  /\ domain.numeric
  /\ ~domain.entity
  /\ domain.typeName = "float"
  /\ domain.lb = MINUS_INFINITY
  /\ domain.ub = 1
  /\ symbolicDefault
  /\ call.op = "print_xml"
  /\ call.result = "<interval type=\"float\" min=\"-inf\" max=\"0.500000\"/>"

\* C27: whatever factories have been constructed, destroyed and purged, every
\* entry of the lookup table refers to a factory that is alive and no two
\* entries share a name; a purgeAll raises nothing, leaves the table empty and
\* no registered factory alive, and any name can be registered after it.
C27_TableEntriesAlive ==
  /\ \A name \in DOMAIN lookupTable : lookupTable[name] \in aliveFactories
  /\ Cardinality(DOMAIN lookupTable) <= Cardinality(Names)
  /\ call.op = "purgeAll" =>
       /\ error = "none"
       /\ DOMAIN lookupTable = {}
       /\ \A name \in Names : getFactory(name) = NoId
       /\ \A name \in Names : registerFactory(name, nextFactory + 1).err = "none"

\* C28: an Assembly has no writer until its first getPPW or exportToPlanWorks,
\* which creates it; no second writer is ever created and later calls return
\* the same one; exportToPlanWorks writes its (tick, attempt) and replies
\* "DONE"; and once the Assembly is destroyed no writer it created is left
\* allocated.
C28_WriterLazyOnceReleased ==
  /\ nextWriter <= 1
  /\ call.op = "Assembly" => (m_ppw = NoId /\ nextWriter = 0)
  /\ call.op = "getPPW" => (call.result = m_ppw /\ m_ppw \in liveWriters)
  /\ call.op = "exportToPlanWorks" =>
       /\ call.result = "DONE"
       /\ m_ppw \in liveWriters
       /\ written # << >>
       /\ written[Len(written)] = << call.tick, call.attempt >>
  /\ assembly = "destroyed" => liveWriters = {}

=============================================================================
